---- MODULE Spec2Model ----
(***************************************************************************)
(* Adventure Forge: the game session orchestrator of src/App.tsx together  *)
(* with the enabling conditions of the controls in GameScreen,             *)
(* CharacterCreator and SwitchPerspectiveModal that call its handlers.     *)
(*                                                                         *)
(* React state cells are the variables.  Every handler is one action; an   *)
(* async handler is split at each await: the part before the await is one  *)
(* action that leaves a record in `pending` holding what the closure       *)
(* captured, and each way the awaited promise can settle is one action     *)
(* that consumes the record.  State setters given a value use the captured *)
(* value; setters given a function (prev => ...) use the current cell.     *)
(***************************************************************************)
EXTENDS Integers, Sequences, FiniteSets, TLC

(***************************************************************************)
(* Bounds of the model.                                                    *)
(***************************************************************************)
MaxClicks == 4     \* player intents (clicks) in one run
MaxQty == 2        \* largest quantity in an inventory delta
MaxDeltas == 3     \* inventory deltas applied in one run of SpecInventory

(***************************************************************************)
(* Values.                                                                 *)
(***************************************************************************)
NULL == [null |-> TRUE]

START == "CHARACTER_CREATION_START"
FINALIZE == "CHARACTER_CREATION_FINALIZE"
GAMEPLAY == "GAMEPLAY"
COMBAT == "COMBAT"
GAME_OVER == "GAME_OVER"
GameState == {START, FINALIZE, GAMEPLAY, COMBAT, GAME_OVER}

Themes == {"Oakhaven", "Skyreach"}
Names == {"Bren"}
Worlds == {"", "Skyreach"}    \* texts typed into the World Theme field
ItemNames == {"Torch", "torch", "TORCH", "Sword"}
UpdatedHealths == {0, 11}
StartingHealth == 10

\* String.prototype.toLowerCase on the item names of the model
ToLowerCase(s) ==
    CASE s = "Torch" -> "torch"
      [] s = "TORCH" -> "torch"
      [] s = "Sword" -> "sword"
      [] OTHER -> s

Message(speaker, text) == [speaker |-> speaker, text |-> text]

\* the message of the error generateGameTurn throws, and the log entries made of it
TurnError == "The story could not continue. The fabric of reality seems to have frayed."
TurnErrorText == "Error: The story could not continue. The fabric of reality seems to have frayed."
FateErrorText ==
    "Error: Fate itself recoils in error. The story could not continue. The fabric of reality seems to have frayed."

Item(name, description, quantity, type) ==
    [name |-> name, description |-> description, quantity |-> quantity, type |-> type]

\* items the narrative service may name in an inventoryChange
DeltaItems == {Item(n, "found", q, "item") : n \in ItemNames, q \in 1..MaxQty}

InventoryChanges ==
    {NULL} \cup [action : {"add", "remove"}, item : DeltaItems]

\* the inventory changes clicks of the session are answered with: a stacking
\* add under another casing, an add of a new item, a remove
SessionChanges ==
    {NULL,
     [action |-> "add", item |-> Item("torch", "found", 2, "item")],
     [action |-> "remove", item |-> Item("TORCH", "found", 1, "item")]}

\* the scenes a turn result describes: a fight with attack options, or not
Scenes ==
    {[isCombat |-> TRUE, choices |-> <<"go on">>, attackOptions |-> <<"strike">>],
     [isCombat |-> FALSE, choices |-> <<"rest">>, attackOptions |-> <<>>]}

TurnResult(scene, updatedHealth, inventoryChange, isGameOver) ==
    [sceneDescription |-> "scene", choices |-> scene.choices, isCombat |-> scene.isCombat,
     attackOptions |-> scene.attackOptions, updatedHealth |-> updatedHealth,
     inventoryChange |-> inventoryChange, isGameOver |-> isGameOver,
     \* the response schema lets every scene introduce named characters
     newCharacters |-> <<"Mira">>]

\* the GameTurnResult values generateGameTurn may resolve to
TurnResults ==
    {TurnResult(s, h, i, g) :
        s \in Scenes, h \in UpdatedHealths, i \in SessionChanges, g \in BOOLEAN}

\* starting inventories the creation service may return
StartingInventories == {<<Item("Torch", "starting", 1, "item")>>}

(***************************************************************************)
(* Character Mutation Engine: the inventory part of processTurnResult.     *)
(***************************************************************************)
\* Array.prototype.findIndex with the case-insensitive name test; 0 is JS -1
FindIndex(inventory, name) ==
    IF \E i \in 1..Len(inventory) : ToLowerCase(inventory[i].name) = ToLowerCase(name)
    THEN CHOOSE i \in 1..Len(inventory) :
            /\ ToLowerCase(inventory[i].name) = ToLowerCase(name)
            /\ \A j \in 1..(i - 1) : ToLowerCase(inventory[j].name) # ToLowerCase(name)
    ELSE 0

\* Array.prototype.splice(i, 1)
Splice(s, i) == [k \in 1..(Len(s) - 1) |-> IF k < i THEN s[k] ELSE s[k + 1]]

\* a faulty add: the delta item takes the place of the entry it matches
AddItemReplacing(inventory, item) ==
    LET existingItemIndex == FindIndex(inventory, item.name) IN
    IF existingItemIndex > 0
    THEN [inventory EXCEPT ![existingItemIndex] =
             [item EXCEPT !.quantity = @ + inventory[existingItemIndex].quantity]]
    ELSE Append(inventory, item)

AddItem(inventory, item) ==
    LET existingItemIndex == FindIndex(inventory, item.name) IN
    IF existingItemIndex > 0
    THEN [inventory EXCEPT ![existingItemIndex].quantity = @ + item.quantity]
    ELSE Append(inventory, item)

\* a faulty remove: the entry is spliced only below zero
RemoveItemKeepingZero(inventory, item) ==
    LET existingItemIndex == FindIndex(inventory, item.name) IN
    IF existingItemIndex > 0
    THEN IF inventory[existingItemIndex].quantity - item.quantity < 0
         THEN Splice(inventory, existingItemIndex)
         ELSE [inventory EXCEPT ![existingItemIndex].quantity = @ - item.quantity]
    ELSE inventory

RemoveItem(inventory, item) ==
    LET existingItemIndex == FindIndex(inventory, item.name) IN
    IF existingItemIndex > 0
    THEN IF inventory[existingItemIndex].quantity - item.quantity <= 0
         THEN Splice(inventory, existingItemIndex)
         ELSE [inventory EXCEPT ![existingItemIndex].quantity = @ - item.quantity]
    ELSE inventory

ApplyInventoryChange(inventory, inventoryChange) ==
    IF inventoryChange = NULL THEN inventory
    ELSE IF inventoryChange.action = "add" THEN AddItem(inventory, inventoryChange.item)
    ELSE IF inventoryChange.action = "remove" THEN RemoveItem(inventory, inventoryChange.item)
    ELSE inventory

(***************************************************************************)
(* State: the useState cells of App (src/App.tsx 25-44), the browser's     *)
(* localStorage, the promises in flight and the clock.                     *)
(***************************************************************************)
VARIABLES
    gameState,                   \* GamePhase
    character,                   \* Character or NULL
    messages,                    \* sequence of Message
    choices,                     \* sequence of strings
    attackOptions,               \* sequence of strings
    isLoading,                   \* BOOLEAN
    error,                       \* "" is null
    creatorOptions,              \* creation scaffold or NULL
    savedGames,                  \* the known collection: sequence of SaveData
    previousTurnState,           \* the undo snapshot (TurnState) or NULL
    worldThemeForContinuation,   \* "" is null
    previousProtagonist,         \* ProtagonistContext or NULL
    worldHistoryForContinuation, \* <<>> is null, <<h>> is the history h
    isSwitchingPerspective,      \* the SwitchPerspectiveModal is open
    localStorage,                \* the blob under SAVES_KEY and the archived blobs
    pending,                     \* the service calls in flight, with their closures
    nameSubmitClosure,           \* continuation state captured by handleNameSubmit
    now,                         \* Date.now(), advanced when an id is generated
    clicks,                      \* player intents so far
    mounted,                     \* the mount effect has run
    ledger                       \* inventory deltas applied so far (SpecInventory)

vars == <<gameState, character, messages, choices, attackOptions, isLoading, error,
          creatorOptions, savedGames, previousTurnState, worldThemeForContinuation,
          previousProtagonist, worldHistoryForContinuation, isSwitchingPerspective,
          localStorage, pending, nameSubmitClosure, now, clicks, mounted, ledger>>

\* the five fields of a TurnState / SaveData
session == <<gameState, character, messages, choices, attackOptions>>

continuation == <<worldThemeForContinuation, previousProtagonist, worldHistoryForContinuation>>

(***************************************************************************)
(* Save slots and the store.                                               *)
(*                                                                         *)
(* A slot of the known collection carries, beside the SaveData fields,     *)
(* `shared`: for each inventory position whether the item object stored    *)
(* there is the very object the live character's inventory refers to.      *)
(* handleSaveGame and handleLoadGame pass the character by reference, and  *)
(* processTurnResult changes item quantities in place, so such a slot      *)
(* sees the change.  Slots read back by JSON.parse share nothing.          *)
(***************************************************************************)
\* a faulty slot: attackOptions are left out
SaveDataWithoutAttackOptions(gs, ch, msgs, chs, atk, sh) ==
    [id |-> ch.id, gameState |-> gs, character |-> ch, messages |-> msgs,
     choices |-> chs, attackOptions |-> <<>>, shared |-> sh]

SaveData(gs, ch, msgs, chs, atk, sh) ==
    [id |-> ch.id, gameState |-> gs, character |-> ch, messages |-> msgs,
     choices |-> chs, attackOptions |-> atk, shared |-> sh]

AllShared(inventory) == [i \in 1..Len(inventory) |-> TRUE]
NoneShared(inventory) == [i \in 1..Len(inventory) |-> FALSE]

\* JSON.stringify of a collection: values only
Stringify(allSaves) ==
    [kind |-> "json",
     slots |-> [i \in 1..Len(allSaves) |->
                  [id |-> allSaves[i].id, gameState |-> allSaves[i].gameState,
                   character |-> allSaves[i].character, messages |-> allSaves[i].messages,
                   choices |-> allSaves[i].choices,
                   attackOptions |-> allSaves[i].attackOptions]]]

\* JSON.parse of a stored blob that parses: fresh objects
Parse(blob) ==
    [i \in 1..Len(blob.slots) |->
        SaveData(blob.slots[i].gameState, blob.slots[i].character, blob.slots[i].messages,
                 blob.slots[i].choices, blob.slots[i].attackOptions,
                 NoneShared(blob.slots[i].character.inventory))]

\* getItem returns null
Absent == [kind |-> "absent", slots |-> <<>>]
\* a non-empty string JSON.parse throws on
Corrupt == [kind |-> "corrupt", slots |-> <<>>]
\* the string "": falsy, so never handed to JSON.parse
Empty == [kind |-> "empty", slots |-> <<>>]

\* what a slot restores
SlotSession(save) ==
    <<save.gameState, save.character, save.messages, save.choices, save.attackOptions>>

\* Array.prototype.findIndex(s => s.id === id); 0 is JS -1
SaveIndex(allSaves, id) ==
    IF \E i \in 1..Len(allSaves) : allSaves[i].id = id
    THEN CHOOSE i \in 1..Len(allSaves) :
            /\ allSaves[i].id = id
            /\ \A j \in 1..(i - 1) : allSaves[j].id # id
    ELSE 0

\* a faulty filter: the collection is cut off at the id
RECURSIVE FilterOutAndAfter(_, _)
FilterOutAndAfter(allSaves, id) ==
    IF allSaves = <<>> THEN <<>>
    ELSE IF Head(allSaves).id = id THEN <<>>
    ELSE <<Head(allSaves)>> \o FilterOutAndAfter(Tail(allSaves), id)

\* Array.prototype.filter(s => s.id !== id)
RECURSIVE FilterOut(_, _)
FilterOut(allSaves, id) ==
    IF allSaves = <<>> THEN <<>>
    ELSE IF Head(allSaves).id = id THEN FilterOut(Tail(allSaves), id)
    ELSE <<Head(allSaves)>> \o FilterOut(Tail(allSaves), id)

(***************************************************************************)
(* Item objects shared between the live character and the known            *)
(* collection.                                                             *)
(***************************************************************************)
Unshared(allSaves) ==
    [i \in 1..Len(allSaves) |->
        [allSaves[i] EXCEPT !.shared = NoneShared(allSaves[i].character.inventory)]]

\* processTurnResult writes the new quantity into the item object it found in
\* `inventory`; every slot holding that object shows the new quantity.  An
\* object spliced out of the live inventory stays in the slot.
MutateShared(allSaves, inventory, inventoryChange) ==
    IF inventoryChange = NULL THEN allSaves
    ELSE
    LET item == inventoryChange.item
        existingItemIndex == FindIndex(inventory, item.name)
    IN
    IF existingItemIndex = 0 \/ inventoryChange.action \notin {"add", "remove"} THEN allSaves
    ELSE
    LET found == ToLowerCase(inventory[existingItemIndex].name)
        quantity == IF inventoryChange.action = "add"
                    THEN inventory[existingItemIndex].quantity + item.quantity
                    ELSE inventory[existingItemIndex].quantity - item.quantity
        spliced == inventoryChange.action = "remove" /\ quantity <= 0
        Same(save, j) == save.shared[j] /\ ToLowerCase(save.character.inventory[j].name) = found
    IN
    [i \in 1..Len(allSaves) |->
        LET save == allSaves[i] IN
        [save EXCEPT
            !.character.inventory =
                [j \in 1..Len(save.character.inventory) |->
                    IF Same(save, j)
                    THEN [save.character.inventory[j] EXCEPT !.quantity = quantity]
                    ELSE save.character.inventory[j]],
            !.shared =
                [j \in 1..Len(save.shared) |-> save.shared[j] /\ ~(spliced /\ Same(save, j))]]]

(***************************************************************************)
(* Characters.                                                             *)
(***************************************************************************)
Character(id, name, theme, health, inventory) ==
    [id |-> id, name |-> name, theme |-> theme, health |-> health,
     maxHealth |-> StartingHealth, inventory |-> inventory,
     backstory |-> "written", companions |-> "met"]

\* a character saved by an earlier run of the program
OldCharacter ==
    Character(0, "Ann", "Oakhaven", 7, <<Item("Torch", "starting", 1, "item")>>)

OldSave ==
    SaveData(GAMEPLAY, OldCharacter,
             <<Message("system", "begins"), Message("game", "scene")>>,
             <<"go on">>, <<>>, NoneShared(OldCharacter.inventory))

InitialBlobs == {Absent, Empty, Corrupt, Stringify(<<OldSave>>)}

\* the ledger of a run of the session: no delta recorded
NoLedger == [initial |-> <<>>, deltas |-> <<>>]

Init ==
    /\ gameState = START
    /\ character = NULL
    /\ messages = <<>>
    /\ choices = <<>>
    /\ attackOptions = <<>>
    /\ isLoading = FALSE
    /\ error = ""
    /\ creatorOptions = NULL
    /\ savedGames = <<>>
    /\ previousTurnState = NULL
    /\ worldThemeForContinuation = ""
    /\ previousProtagonist = NULL
    /\ worldHistoryForContinuation = <<>>
    /\ isSwitchingPerspective = FALSE
    /\ localStorage \in [saves : InitialBlobs, archived : {{}}]
    /\ pending = {}
    /\ nameSubmitClosure = [history |-> <<>>, protagonist |-> NULL]
    /\ now = 1
    /\ clicks = 0
    /\ mounted = FALSE
    /\ ledger = NoLedger

(***************************************************************************)
(* Calls in flight.  One record per awaited promise, holding what the      *)
(* awaiting closure captured.                                              *)
(***************************************************************************)
Call(kind, ch, sent, prompt, world, ctx) ==
    [kind |-> kind,          \* which await: scaffold, simple, prepare, first, turn, fate
     character |-> ch,       \* the character the closure holds
     sent |-> sent,          \* the history handed to generateGameTurn
     prompt |-> prompt,      \* the input handed to generateGameTurn
     finalWorld |-> world,   \* finalWorld of handleNameSubmit
     ctx |-> ctx]            \* continuation state seen by handleCharacterFinalize

NoCtx == [history |-> <<>>, protagonist |-> NULL]
CurrentCtx == [history |-> worldHistoryForContinuation, protagonist |-> previousProtagonist]

\* requests to the narrative service (generateGameTurn)
TurnKinds == {"first", "turn", "fate"}
TurnRequests == {p \in pending : p.kind \in TurnKinds}

\* handleNameSubmit is memoized on worldThemeForContinuation alone: it is
\* rebuilt, with the handleCharacterFinalize of that render, only in a render
\* in which the theme differs from the previous render's
CaptureNameSubmit(theme2, protagonist2, history2) ==
    nameSubmitClosure' =
        IF theme2 # worldThemeForContinuation
        THEN [history |-> history2, protagonist |-> protagonist2]
        ELSE nameSubmitClosure

KeepContinuation ==
    UNCHANGED <<worldThemeForContinuation, previousProtagonist,
                worldHistoryForContinuation, nameSubmitClosure>>

(***************************************************************************)
(* Which controls can be operated (GameScreen, CharacterCreator and        *)
(* SwitchPerspectiveModal).  The open modal covers the viewport.           *)
(***************************************************************************)
CreatorShown == mounted /\ ~isSwitchingPerspective /\ gameState \in {START, FINALIZE}
GameShown ==
    /\ mounted /\ ~isSwitchingPerspective
    /\ gameState \in {GAMEPLAY, COMBAT, GAME_OVER}
    /\ character # NULL

\* a faulty GameScreen: the turn input stays up while a request is in flight
TurnInputShownWhileLoading == GameShown /\ gameState # GAME_OVER

\* the choice buttons and the custom input form
TurnInputShown == GameShown /\ ~isLoading /\ gameState # GAME_OVER

\* Start Anew, Continue as Another Hero, Let Fate Decide
GameOverExitsShown == GameShown /\ ~isLoading /\ gameState = GAME_OVER

\* Switch Perspective and Save: shown outside GAME_OVER, disabled while loading
HeaderEnabled == GameShown /\ gameState # GAME_OVER /\ ~isLoading

canUndo == previousTurnState # NULL /\ ~isLoading

\* a faulty Undo button: enabled whenever a snapshot exists
UndoEnabledWhileLoading == GameShown /\ gameState # GAME_OVER /\ previousTurnState # NULL

\* the Undo button
UndoEnabled == GameShown /\ gameState # GAME_OVER /\ canUndo /\ ~isLoading

\* Detailed Creator and Quick Start
NameButtonsEnabled == CreatorShown /\ gameState = START /\ ~isLoading

\* Forge Character
ForgeEnabled == CreatorShown /\ gameState = FINALIZE /\ ~isLoading

\* the Continue a Tale list
SavedGamesListed == CreatorShown /\ gameState = START

\* a player intent, counted against the bound of the model
Click == clicks < MaxClicks /\ clicks' = clicks + 1

(***************************************************************************)
(* Mount effect: list the saves.                                           *)
(***************************************************************************)
ArchiveNotice == "Your save file was corrupted and has been archived."
ArchiveFailed == "Your save file was corrupted and could not be archived."
StorageDisabled == "Your browser's storage is disabled or full."

\* a faulty mount effect: the unparsable blob is removed without a copy
MountDiscarding ==
    /\ ~mounted
    /\ mounted' = TRUE
    /\ \/ \* getItem throws
          /\ error' = StorageDisabled
          /\ UNCHANGED <<savedGames, localStorage>>
       \/ \* if (savedDataString) is false
          /\ localStorage.saves.kind \in {"absent", "empty"}
          /\ UNCHANGED <<savedGames, localStorage, error>>
       \/ /\ localStorage.saves.kind = "json"
          /\ savedGames' = Parse(localStorage.saves)
          /\ UNCHANGED <<localStorage, error>>
       \/ /\ localStorage.saves.kind = "corrupt"
          /\ \/ \* the archive copy is written and the primary key removed
                /\ localStorage' = [saves |-> Absent, archived |-> localStorage.archived]
                /\ error' = ArchiveNotice
             \/ \* setItem throws: nothing is written or removed
                /\ error' = ArchiveFailed
                /\ UNCHANGED localStorage
          /\ UNCHANGED savedGames
    /\ UNCHANGED <<gameState, character, messages, choices, attackOptions, isLoading,
                   creatorOptions, previousTurnState, isSwitchingPerspective, pending, now,
                   clicks, ledger>>
    /\ KeepContinuation

Mount ==
    /\ ~mounted
    /\ mounted' = TRUE
    /\ \/ \* getItem throws
          /\ error' = StorageDisabled
          /\ UNCHANGED <<savedGames, localStorage>>
       \/ \* if (savedDataString) is false
          /\ localStorage.saves.kind \in {"absent", "empty"}
          /\ UNCHANGED <<savedGames, localStorage, error>>
       \/ /\ localStorage.saves.kind = "json"
          /\ savedGames' = Parse(localStorage.saves)
          /\ UNCHANGED <<localStorage, error>>
       \/ /\ localStorage.saves.kind = "corrupt"
          /\ \/ \* the archive copy is written and the primary key removed
                /\ localStorage' = [saves |-> Absent,
                                    archived |-> localStorage.archived \cup {localStorage.saves}]
                /\ error' = ArchiveNotice
             \/ \* setItem throws: nothing is written or removed
                /\ error' = ArchiveFailed
                /\ UNCHANGED localStorage
          /\ UNCHANGED savedGames
    /\ UNCHANGED <<gameState, character, messages, choices, attackOptions, isLoading,
                   creatorOptions, previousTurnState, isSwitchingPerspective, pending, now,
                   clicks, ledger>>
    /\ KeepContinuation

(***************************************************************************)
(* Character creation: handleNameSubmit and handleCharacterFinalize.       *)
(***************************************************************************)
ScaffoldError == "Failed to generate character theme."
SimpleError == "Failed to generate a character with Quick Start."

\* world is the text of the World Theme field, "" when left empty
NameSubmit(creationMode, world) ==
    /\ NameButtonsEnabled
    /\ Click
    /\ isLoading' = TRUE
    /\ error' = ""
    /\ LET finalWorld == IF worldThemeForContinuation # "" THEN worldThemeForContinuation
                         ELSE world
       IN pending' = pending \cup
            {Call(IF creationMode = "detailed" THEN "scaffold" ELSE "simple",
                  NULL, <<>>, "", finalWorld, nameSubmitClosure)}
    /\ UNCHANGED <<gameState, character, messages, choices, attackOptions, creatorOptions,
                   savedGames, previousTurnState, isSwitchingPerspective, localStorage,
                   now, mounted, ledger>>
    /\ KeepContinuation

\* generateCreatorScaffold resolves
ScaffoldResolved(p, theme, startingInventory) ==
    /\ p \in pending /\ p.kind = "scaffold"
    /\ pending' = pending \ {p}
    /\ creatorOptions' = [theme |-> IF p.finalWorld # "" THEN p.finalWorld ELSE theme,
                          startingInventory |-> startingInventory,
                          startingHealth |-> StartingHealth]
    /\ gameState' = FINALIZE
    /\ isLoading' = FALSE
    /\ UNCHANGED <<character, messages, choices, attackOptions, error, savedGames,
                   previousTurnState, isSwitchingPerspective, localStorage, now, clicks,
                   mounted, ledger>>
    /\ KeepContinuation

\* generateCreatorScaffold or generateSimpleCharacter rejects
CreationRejected(p) ==
    /\ p \in pending /\ p.kind \in {"scaffold", "simple"}
    /\ pending' = pending \ {p}
    /\ error' = IF p.kind = "scaffold" THEN ScaffoldError ELSE SimpleError
    /\ isLoading' = FALSE
    /\ UNCHANGED <<gameState, character, messages, choices, attackOptions, creatorOptions,
                   savedGames, previousTurnState, isSwitchingPerspective, localStorage,
                   now, clicks, mounted, ledger>>
    /\ KeepContinuation

\* handleCharacterFinalize from its first statement to the first await
FinalizeEntry ==
    /\ isLoading' = TRUE
    /\ error' = ""
    /\ previousTurnState' = NULL

\* handleCharacterFinalize from the character's identity to the turn request.
\* finalized is the character without id; ctx is the continuation state of
\* the closure; rest is what else stays in flight.
FinalizeBegin(finalized, ctx, rest) ==
    LET characterWithId == [finalized EXCEPT !.id = now]
        continued == ctx.history # <<>> /\ ctx.protagonist # NULL
        dead == continued /\ ctx.protagonist.status = "dead"
        systemMessage ==
            IF ~continued THEN Message("system", "Your adventure begins...")
            ELSE IF dead THEN Message("system", "The tale has ended. A new story begins...")
            ELSE Message("system", "The perspective shifts...")
        gameHistory == IF continued THEN ctx.history[1] ELSE <<systemMessage>>
        initialPrompt ==
            IF ~continued THEN "The adventure begins."
            ELSE IF dead THEN "The hero has fallen."
            ELSE "The perspective now shifts."
    IN
    /\ now' = now + 1
    /\ character' = characterWithId
    /\ messages' = <<systemMessage>>
    /\ IF continued
       THEN /\ worldThemeForContinuation' = ""
            /\ previousProtagonist' = NULL
            /\ worldHistoryForContinuation' = <<>>
            /\ CaptureNameSubmit("", NULL, <<>>)
       ELSE KeepContinuation
    /\ savedGames' = Unshared(savedGames)
    /\ pending' = rest \cup
            {Call("first", characterWithId, gameHistory, initialPrompt, "", ctx)}

\* generateSimpleCharacter resolves: handleCharacterFinalize(simpleCharacterData, !!finalWorld)
SimpleResolved(p, theme, inventory) ==
    /\ p \in pending /\ p.kind = "simple"
    /\ \E name \in Names :
        LET simpleCharacterData == Character(0, name, theme, StartingHealth, inventory) IN
        /\ FinalizeEntry
        /\ IF p.finalWorld # ""
           THEN \* await generateCanonEvents
                /\ pending' = (pending \ {p}) \cup
                       {Call("prepare", simpleCharacterData, <<>>, "", p.finalWorld, p.ctx)}
                /\ UNCHANGED <<character, messages, savedGames, now>>
                /\ KeepContinuation
           ELSE FinalizeBegin(simpleCharacterData, p.ctx, pending \ {p})
    /\ UNCHANGED <<gameState, choices, attackOptions, creatorOptions,
                   isSwitchingPerspective, localStorage, clicks, mounted, ledger>>

\* the Forge Character button: handleFinalize, then handleCharacterFinalize up
\* to its await of generateVisualTheme
CharacterFinalize(name) ==
    /\ ForgeEnabled
    /\ Click
    /\ creatorOptions # NULL
    /\ FinalizeEntry
    /\ pending' = pending \cup
          {Call("prepare",
                Character(0, name, creatorOptions.theme, creatorOptions.startingHealth,
                          creatorOptions.startingInventory),
                <<>>, "", "", CurrentCtx)}
    /\ UNCHANGED <<gameState, character, messages, choices, attackOptions, creatorOptions,
                   savedGames, isSwitchingPerspective, localStorage, now, mounted, ledger>>
    /\ KeepContinuation

\* generateCanonEvents / generateVisualTheme resolve (neither rejects)
PrepareResolved(p) ==
    /\ p \in pending /\ p.kind = "prepare"
    /\ FinalizeBegin(p.character, p.ctx, pending \ {p})
    /\ UNCHANGED <<gameState, choices, attackOptions, isLoading, error, creatorOptions,
                   previousTurnState, isSwitchingPerspective, localStorage, clicks, mounted,
                   ledger>>

\* the first generateGameTurn resolves
FirstTurnResolved(p, turnResult) ==
    /\ p \in pending /\ p.kind = "first"
    /\ pending' = pending \ {p}
    /\ messages' = Append(messages, Message("game", turnResult.sceneDescription))
    /\ choices' = turnResult.choices
    /\ attackOptions' = turnResult.attackOptions
    /\ gameState' = IF turnResult.isCombat THEN COMBAT ELSE GAMEPLAY
    /\ isLoading' = FALSE
    /\ UNCHANGED <<character, error, creatorOptions, savedGames, previousTurnState,
                   isSwitchingPerspective, localStorage, now, clicks, mounted, ledger>>
    /\ KeepContinuation

\* a faulty catch block: [...messages, error] over the messages of the closure
AppendErrorToSent(prev, sent, text) ==
    Append(SubSeq(sent, 1, Len(sent) - 1), Message("system", text))

\* setMessages(prev => [...prev, error]) of a catch block; sent is the history
\* the closure handed to generateGameTurn
AppendError(prev, sent, text) == Append(prev, Message("system", text))

\* the first generateGameTurn rejects
FirstTurnRejected(p) ==
    /\ p \in pending /\ p.kind = "first"
    /\ pending' = pending \ {p}
    /\ error' = TurnError
    /\ messages' = AppendError(messages, p.sent, TurnErrorText)
    /\ isLoading' = FALSE
    /\ UNCHANGED <<gameState, character, choices, attackOptions, creatorOptions, savedGames,
                   previousTurnState, isSwitchingPerspective, localStorage, now, clicks,
                   mounted, ledger>>
    /\ KeepContinuation

(***************************************************************************)
(* Turns: handlePlayerChoice, handleLetFateDecide, processTurnResult.      *)
(***************************************************************************)
\* a faulty snapshot: { ...character } keeps the live item objects
ShallowCopyShared(inventory) == AllShared(inventory)

\* JSON.parse(JSON.stringify(character)): the copy shares no item object
DeepCopyShared(inventory) == NoneShared(inventory)

\* the snapshot handlePlayerChoice stores; `shared` as in a save slot
TurnState(gs, ch, msgs, chs, atk) ==
    [gameState |-> gs, character |-> ch, messages |-> msgs, choices |-> chs,
     attackOptions |-> atk, shared |-> DeepCopyShared(ch.inventory)]

\* what undo would restore
SnapshotSession(turnState) ==
    <<turnState.gameState, turnState.character, turnState.messages, turnState.choices,
      turnState.attackOptions>>

PlayerChoices == {"I act"}
FateMessage == Message("system", "A thread of fate refuses to be severed...")

\* a choice button or the custom input form
PlayerChoice(choice) ==
    /\ TurnInputShown
    /\ Click
    /\ previousTurnState' = TurnState(gameState, character, messages, choices, attackOptions)
    /\ isLoading' = TRUE
    /\ error' = ""
    /\ LET newMessages == Append(messages, Message("player", choice)) IN
        /\ messages' = newMessages
        /\ pending' = pending \cup {Call("turn", character, newMessages, choice, "", NoCtx)}
    /\ UNCHANGED <<gameState, character, choices, attackOptions, creatorOptions, savedGames,
                   isSwitchingPerspective, localStorage, now, mounted, ledger>>
    /\ KeepContinuation

\* a faulty phase test: health is not looked at
IsGameOverByFlag(turnResult, health) == turnResult.isGameOver

\* a faulty test: only the health ends the game
IsGameOverByHealth(turnResult, health) == health <= 0

\* the phase processTurnResult moves to
IsGameOver(turnResult, health) == turnResult.isGameOver \/ health <= 0

\* a faulty health update: clamped to maxHealth
NewCharacterStateClamped(ch, turnResult) ==
    [ch EXCEPT !.health = IF turnResult.updatedHealth > ch.maxHealth THEN ch.maxHealth
                          ELSE turnResult.updatedHealth,
               !.inventory = ApplyInventoryChange(ch.inventory, turnResult.inventoryChange)]

\* a faulty engine: the characters a scene introduces join the companions
NewCharacterStateWithCompanions(ch, turnResult) ==
    [ch EXCEPT !.health = turnResult.updatedHealth,
               !.inventory = ApplyInventoryChange(ch.inventory, turnResult.inventoryChange),
               !.companions = IF turnResult.newCharacters # <<>> THEN "joined" ELSE @]

\* the character handlePlayerChoice / handleLetFateDecide hand to
\* processTurnResult, after its inventory step
NewCharacterState(ch, turnResult) ==
    [ch EXCEPT !.health = turnResult.updatedHealth,
               !.inventory = ApplyInventoryChange(ch.inventory, turnResult.inventoryChange)]

\* a faulty processTurnResult: the result's choices are shown after a death
ProcessTurnResultKeepingChoices(p, turnResult) ==
    LET newCharacterState == NewCharacterState(p.character, turnResult) IN
    /\ character' = newCharacterState
    /\ messages' = Append(messages, Message("game", turnResult.sceneDescription))
    /\ IF IsGameOver(turnResult, newCharacterState.health)
       THEN /\ gameState' = GAME_OVER
            /\ choices' = turnResult.choices
            /\ attackOptions' = turnResult.attackOptions
            /\ previousTurnState' = NULL
       ELSE /\ choices' = turnResult.choices
            /\ attackOptions' = turnResult.attackOptions
            /\ gameState' = IF turnResult.isCombat THEN COMBAT ELSE GAMEPLAY
            /\ previousTurnState' =
                  IF previousTurnState = NULL THEN NULL
                  ELSE MutateShared(<<previousTurnState>>, p.character.inventory,
                                    turnResult.inventoryChange)[1]
    \* the item objects of p.character are also those of the slots sharing them
    /\ savedGames' = MutateShared(savedGames, p.character.inventory, turnResult.inventoryChange)

\* processTurnResult(turnResult, newCharacterState) on the character of the closure
ProcessTurnResult(p, turnResult) ==
    LET newCharacterState == NewCharacterState(p.character, turnResult) IN
    /\ character' = newCharacterState
    /\ messages' = Append(messages, Message("game", turnResult.sceneDescription))
    /\ IF IsGameOver(turnResult, newCharacterState.health)
       THEN /\ gameState' = GAME_OVER
            /\ choices' = <<>>
            /\ attackOptions' = <<>>
            /\ previousTurnState' = NULL
       ELSE /\ choices' = turnResult.choices
            /\ attackOptions' = turnResult.attackOptions
            /\ gameState' = IF turnResult.isCombat THEN COMBAT ELSE GAMEPLAY
            /\ previousTurnState' =
                  IF previousTurnState = NULL THEN NULL
                  ELSE MutateShared(<<previousTurnState>>, p.character.inventory,
                                    turnResult.inventoryChange)[1]
    \* the item objects of p.character are also those of the slots sharing them
    /\ savedGames' = MutateShared(savedGames, p.character.inventory, turnResult.inventoryChange)

\* generateGameTurn of an ordinary turn resolves
TurnResolved(p, turnResult) ==
    /\ p \in pending /\ p.kind = "turn"
    /\ pending' = pending \ {p}
    /\ ProcessTurnResult(p, turnResult)
    /\ isLoading' = FALSE
    /\ UNCHANGED <<error, creatorOptions, isSwitchingPerspective, localStorage, now, clicks,
                   mounted, ledger>>
    /\ KeepContinuation

\* a faulty handlePlayerChoice: no finally block
TurnRejectedStillLoading(p) ==
    /\ p \in pending /\ p.kind = "turn"
    /\ pending' = pending \ {p}
    /\ error' = TurnError
    /\ messages' = AppendError(messages, p.sent, TurnErrorText)
    /\ UNCHANGED <<gameState, character, choices, attackOptions, creatorOptions, savedGames,
                   previousTurnState, isSwitchingPerspective, localStorage, now, clicks,
                   mounted, ledger, isLoading>>
    /\ KeepContinuation

\* generateGameTurn of an ordinary turn rejects
TurnRejected(p) ==
    /\ p \in pending /\ p.kind = "turn"
    /\ pending' = pending \ {p}
    /\ error' = TurnError
    /\ messages' = AppendError(messages, p.sent, TurnErrorText)
    /\ isLoading' = FALSE
    /\ UNCHANGED <<gameState, character, choices, attackOptions, creatorOptions, savedGames,
                   previousTurnState, isSwitchingPerspective, localStorage, now, clicks,
                   mounted, ledger>>
    /\ KeepContinuation

\* the Let Fate Decide button
LetFateDecide ==
    /\ GameOverExitsShown
    /\ Click
    /\ isLoading' = TRUE
    /\ error' = ""
    /\ previousTurnState' = NULL
    /\ LET newMessages == Append(messages, FateMessage) IN
        /\ messages' = newMessages
        /\ pending' = pending \cup {Call("fate", character, newMessages, "fate", "", NoCtx)}
    /\ UNCHANGED <<gameState, character, choices, attackOptions, creatorOptions, savedGames,
                   isSwitchingPerspective, localStorage, now, mounted, ledger>>
    /\ KeepContinuation

FateResolved(p, turnResult) ==
    /\ p \in pending /\ p.kind = "fate"
    /\ pending' = pending \ {p}
    /\ ProcessTurnResult(p, turnResult)
    /\ isLoading' = FALSE
    /\ UNCHANGED <<error, creatorOptions, isSwitchingPerspective, localStorage, now, clicks,
                   mounted, ledger>>
    /\ KeepContinuation

FateRejected(p) ==
    /\ p \in pending /\ p.kind = "fate"
    /\ pending' = pending \ {p}
    /\ error' = TurnError
    /\ messages' = AppendError(messages, p.sent, FateErrorText)
    /\ gameState' = GAME_OVER
    /\ isLoading' = FALSE
    /\ UNCHANGED <<character, choices, attackOptions, creatorOptions, savedGames,
                   previousTurnState, isSwitchingPerspective, localStorage, now, clicks,
                   mounted, ledger>>
    /\ KeepContinuation

\* CharacterSheet: handleBackstorySave / handleCompanionSave -> handleCharacterUpdate
CharacterUpdate(field) ==
    /\ GameShown
    /\ Click
    /\ character[field] # "edited"
    /\ character' = [character EXCEPT ![field] = "edited"]
    /\ UNCHANGED <<gameState, messages, choices, attackOptions, isLoading, error,
                   creatorOptions, savedGames, previousTurnState, isSwitchingPerspective,
                   localStorage, pending, now, mounted, ledger>>
    /\ KeepContinuation

\* a faulty handleUndo: the snapshot is left in place
SnapshotKept(turnState) == turnState

\* setPreviousTurnState(null) of handleUndo: can only undo once
SnapshotConsumed(turnState) == NULL

\* the Undo button
Undo ==
    /\ UndoEnabled
    /\ Click
    /\ previousTurnState # NULL
    /\ gameState' = previousTurnState.gameState
    /\ character' = previousTurnState.character
    /\ messages' = previousTurnState.messages
    /\ choices' = previousTurnState.choices
    /\ attackOptions' = previousTurnState.attackOptions
    /\ previousTurnState' = SnapshotConsumed(previousTurnState)
    /\ error' = ""
    /\ savedGames' = Unshared(savedGames)
    /\ UNCHANGED <<isLoading, creatorOptions, isSwitchingPerspective, localStorage, pending,
                   now, mounted, ledger>>
    /\ KeepContinuation

(***************************************************************************)
(* Save repository: handleSaveGame, handleLoadGame, handleDeleteGame.      *)
(***************************************************************************)
\* a faulty save: a blob that does not parse is taken for an empty collection
SaveGameOverUnparsable ==
    \/ UNCHANGED <<savedGames, localStorage>>
    \/ LET allSaves == IF localStorage.saves.kind = "json"
                       THEN Parse(localStorage.saves) ELSE <<>>
           saveIndex == SaveIndex(allSaves, character.id)
           newSaveData == SaveData(gameState, character, messages, choices,
                                   attackOptions, AllShared(character.inventory))
           written == IF saveIndex > 0
                      THEN [allSaves EXCEPT ![saveIndex] = newSaveData]
                      ELSE Append(allSaves, newSaveData)
       IN /\ localStorage' = [localStorage EXCEPT !.saves = Stringify(written)]
          /\ savedGames' = written

\* a faulty save: the known collection is written back, the store is not re-read
SaveGameFromKnown ==
    \/ UNCHANGED <<savedGames, localStorage>>
    \/ /\ localStorage.saves.kind # "corrupt"
       /\ LET allSaves == savedGames
              saveIndex == SaveIndex(allSaves, character.id)
              newSaveData == SaveData(gameState, character, messages, choices,
                                      attackOptions, AllShared(character.inventory))
              written == IF saveIndex > 0
                         THEN [allSaves EXCEPT ![saveIndex] = newSaveData]
                         ELSE Append(allSaves, newSaveData)
          IN /\ localStorage' = [localStorage EXCEPT !.saves = Stringify(written)]
             /\ savedGames' = written

\* a faulty save: the slot is pushed without looking for the id
SaveGameAppending ==
    \/ UNCHANGED <<savedGames, localStorage>>
    \/ /\ localStorage.saves.kind # "corrupt"
       /\ LET allSaves == IF localStorage.saves.kind = "json"
                          THEN Parse(localStorage.saves) ELSE <<>>
              newSaveData == SaveData(gameState, character, messages, choices,
                                      attackOptions, AllShared(character.inventory))
              written == Append(allSaves, newSaveData)
          IN /\ localStorage' = [localStorage EXCEPT !.saves = Stringify(written)]
             /\ savedGames' = written

\* the body of handleSaveGame; saveMessage is not modelled
SaveGame ==
    \/ \* getItem, JSON.parse or setItem throws: caught, nothing is written
       /\ UNCHANGED <<savedGames, localStorage>>
    \/ /\ localStorage.saves.kind # "corrupt"
       /\ LET allSaves == IF localStorage.saves.kind = "json"
                          THEN Parse(localStorage.saves) ELSE <<>>
              saveIndex == SaveIndex(allSaves, character.id)
              newSaveData == SaveData(gameState, character, messages, choices,
                                      attackOptions, AllShared(character.inventory))
              written == IF saveIndex > 0
                         THEN [allSaves EXCEPT ![saveIndex] = newSaveData]
                         ELSE Append(allSaves, newSaveData)
          IN /\ localStorage' = [localStorage EXCEPT !.saves = Stringify(written)]
             /\ savedGames' = written

\* the Save button
SaveClicked ==
    /\ HeaderEnabled
    /\ Click
    /\ SaveGame
    /\ UNCHANGED <<gameState, character, messages, choices, attackOptions, isLoading, error,
                   creatorOptions, previousTurnState, isSwitchingPerspective, pending,
                   now, mounted, ledger>>
    /\ KeepContinuation

LoadError == "Could not find the selected save file."

\* a faulty load: the clean-up runs whether or not the slot was found
LoadGameAlwaysClearing(saveId, contextMessages) ==
    LET saveIndex == SaveIndex(savedGames, saveId) IN
    IF saveIndex > 0
    THEN LET saveData == savedGames[saveIndex] IN
         /\ gameState' = saveData.gameState
         /\ character' = saveData.character
         /\ messages' = saveData.messages \o contextMessages
         /\ choices' = saveData.choices
         /\ attackOptions' = saveData.attackOptions
         /\ creatorOptions' = NULL
         /\ error' = ""
         /\ worldThemeForContinuation' = ""
         /\ CaptureNameSubmit("", previousProtagonist, worldHistoryForContinuation)
         /\ previousTurnState' = NULL
         /\ isSwitchingPerspective' = FALSE
         /\ savedGames' = [i \in 1..Len(savedGames) |->
                             [savedGames[i] EXCEPT !.shared =
                                 IF i = saveIndex
                                 THEN AllShared(savedGames[i].character.inventory)
                                 ELSE NoneShared(savedGames[i].character.inventory)]]
         /\ UNCHANGED <<previousProtagonist, worldHistoryForContinuation>>
    ELSE /\ error' = LoadError
         /\ worldThemeForContinuation' = ""
         /\ CaptureNameSubmit("", previousProtagonist, worldHistoryForContinuation)
         /\ previousTurnState' = NULL
         /\ UNCHANGED <<gameState, character, messages, choices, attackOptions,
                        creatorOptions, isSwitchingPerspective, savedGames,
                        previousProtagonist, worldHistoryForContinuation>>

\* handleLoadGame(saveId, contextMessages)
LoadGame(saveId, contextMessages) ==
    LET saveIndex == SaveIndex(savedGames, saveId) IN
    IF saveIndex > 0
    THEN LET saveData == savedGames[saveIndex] IN
         /\ gameState' = saveData.gameState
         /\ character' = saveData.character
         /\ messages' = saveData.messages \o contextMessages
         /\ choices' = saveData.choices
         /\ attackOptions' = saveData.attackOptions
         /\ creatorOptions' = NULL
         /\ error' = ""
         /\ worldThemeForContinuation' = ""
         /\ CaptureNameSubmit("", previousProtagonist, worldHistoryForContinuation)
         /\ previousTurnState' = NULL
         /\ isSwitchingPerspective' = FALSE
         /\ savedGames' = [i \in 1..Len(savedGames) |->
                             [savedGames[i] EXCEPT !.shared =
                                 IF i = saveIndex
                                 THEN AllShared(savedGames[i].character.inventory)
                                 ELSE NoneShared(savedGames[i].character.inventory)]]
         /\ UNCHANGED <<previousProtagonist, worldHistoryForContinuation>>
    ELSE /\ error' = LoadError
         /\ UNCHANGED <<gameState, character, messages, choices, attackOptions,
                        creatorOptions, previousTurnState, isSwitchingPerspective,
                        savedGames>>
         /\ KeepContinuation

\* ids of the slots listed on the creation start screen
ListedIds == {savedGames[i].id : i \in 1..Len(savedGames)}

\* a slot of the Continue a Tale list is clicked
LoadClicked(saveId) ==
    /\ SavedGamesListed
    /\ Click
    /\ saveId \in ListedIds
    /\ LoadGame(saveId, <<>>)
    /\ UNCHANGED <<isLoading, localStorage, pending, now, mounted, ledger>>

DeleteError ==
    "Failed to delete game. Your browser's storage might be full or data is corrupt."

\* the delete button of a listed slot: handleDeleteGame
DeleteClicked(saveId) ==
    /\ SavedGamesListed
    /\ Click
    /\ saveId \in ListedIds
    /\ \/ \* getItem, JSON.parse or setItem throws
          /\ error' = DeleteError
          /\ UNCHANGED <<savedGames, localStorage>>
       \/ /\ localStorage.saves.kind # "corrupt"
          /\ LET currentSaves == IF localStorage.saves.kind = "json"
                                 THEN Parse(localStorage.saves) ELSE <<>>
                 updatedSaves == FilterOut(currentSaves, saveId)
             IN /\ localStorage' = [localStorage EXCEPT !.saves = Stringify(updatedSaves)]
                /\ savedGames' = updatedSaves
          /\ UNCHANGED error
    /\ UNCHANGED <<gameState, character, messages, choices, attackOptions, isLoading,
                   creatorOptions, previousTurnState, isSwitchingPerspective, pending,
                   now, mounted, ledger>>
    /\ KeepContinuation

(***************************************************************************)
(* Leaving a character: handleStartAnew, handleContinueAsNewCharacter,     *)
(* the perspective switch.                                                 *)
(***************************************************************************)
\* a faulty reset: setPreviousTurnState(null) is left out
ResetToCreationKeepingSnapshot ==
    /\ gameState' = START
    /\ character' = NULL
    /\ messages' = <<>>
    /\ choices' = <<>>
    /\ attackOptions' = <<>>
    /\ error' = ""
    /\ creatorOptions' = NULL
    /\ isLoading' = FALSE
    /\ UNCHANGED previousTurnState
    /\ isSwitchingPerspective' = FALSE
    /\ savedGames' = Unshared(savedGames)

\* a faulty reset: the phase is left as it is
ResetToCreationKeepingPhase ==
    /\ gameState' = gameState
    /\ character' = NULL
    /\ messages' = <<>>
    /\ choices' = <<>>
    /\ attackOptions' = <<>>
    /\ error' = ""
    /\ creatorOptions' = NULL
    /\ isLoading' = FALSE
    /\ previousTurnState' = NULL
    /\ isSwitchingPerspective' = FALSE
    /\ savedGames' = Unshared(savedGames)

\* the reset shared by the three handlers that return to creation
ResetToCreation ==
    /\ gameState' = START
    /\ character' = NULL
    /\ messages' = <<>>
    /\ choices' = <<>>
    /\ attackOptions' = <<>>
    /\ error' = ""
    /\ creatorOptions' = NULL
    /\ isLoading' = FALSE
    /\ previousTurnState' = NULL
    /\ isSwitchingPerspective' = FALSE
    /\ savedGames' = Unshared(savedGames)

StartAnew ==
    /\ GameOverExitsShown
    /\ Click
    /\ ResetToCreation
    /\ worldThemeForContinuation' = ""
    /\ previousProtagonist' = NULL
    /\ worldHistoryForContinuation' = <<>>
    /\ CaptureNameSubmit("", NULL, <<>>)
    /\ UNCHANGED <<localStorage, pending, now, mounted, ledger>>

\* a faulty handoff: the previous protagonist is always recorded as alive
HandoffAlive(status) ==
    /\ worldThemeForContinuation' = character.theme
    /\ previousProtagonist' = [name |-> character.name, status |-> "alive"]
    /\ worldHistoryForContinuation' = <<messages>>
    /\ CaptureNameSubmit(character.theme, [name |-> character.name, status |-> "alive"],
                         <<messages>>)

\* the continuation state both continuity flows set
Handoff(status) ==
    /\ worldThemeForContinuation' = character.theme
    /\ previousProtagonist' = [name |-> character.name, status |-> status]
    /\ worldHistoryForContinuation' = <<messages>>
    /\ CaptureNameSubmit(character.theme, [name |-> character.name, status |-> status],
                         <<messages>>)

ContinueAsNewCharacter ==
    /\ GameOverExitsShown
    /\ Click
    /\ Handoff("dead")
    /\ ResetToCreation
    /\ UNCHANGED <<localStorage, pending, now, mounted, ledger>>

\* the Switch Perspective button: handleOpenSwitchPerspectiveModal
OpenSwitchPerspectiveModal ==
    /\ HeaderEnabled
    /\ Click
    /\ SaveGame
    /\ isSwitchingPerspective' = TRUE
    /\ UNCHANGED <<gameState, character, messages, choices, attackOptions, isLoading, error,
                   creatorOptions, previousTurnState, pending, now, mounted, ledger>>
    /\ KeepContinuation

\* the modal's close button
CloseSwitchPerspectiveModal ==
    /\ mounted /\ isSwitchingPerspective
    /\ Click
    /\ isSwitchingPerspective' = FALSE
    /\ UNCHANGED <<gameState, character, messages, choices, attackOptions, isLoading, error,
                   creatorOptions, savedGames, previousTurnState, localStorage, pending,
                   now, mounted, ledger>>
    /\ KeepContinuation

\* a faulty modal: saves of every theme are offered
AvailableCharactersOfAnyTheme ==
    IF character = NULL THEN {}
    ELSE {savedGames[i].id : i \in
            {k \in 1..Len(savedGames) : savedGames[k].character.id # character.id}}

\* SwitchPerspectiveModal.availableCharacters, as ids
AvailableCharacters ==
    IF character = NULL THEN {}
    ELSE {savedGames[i].id : i \in
            {k \in 1..Len(savedGames) :
                /\ savedGames[k].character.theme = character.theme
                /\ savedGames[k].character.id # character.id}}

\* Array.prototype.slice(-5)
LastFive(s) == IF Len(s) <= 5 THEN s ELSE SubSeq(s, Len(s) - 4, Len(s))

\* a faulty context message: the recent events are left out
ContextMessageWithoutEvents(target) ==
    [speaker |-> "system", text |-> "*** MEANWHILE ***", to |-> target,
     about |-> character.name, recentEvents |-> <<>>]

\* the message handleConfirmSwitchPerspective injects
ContextMessage(target) ==
    [speaker |-> "system", text |-> "*** MEANWHILE ***", to |-> target,
     about |-> character.name, recentEvents |-> LastFive(messages)]

\* an existing character of the modal is clicked
ConfirmSwitchPerspective(target) ==
    /\ mounted /\ isSwitchingPerspective
    /\ Click
    /\ target \in AvailableCharacters
    /\ character # NULL
    /\ LoadGame(target, <<ContextMessage("another")>>)
    /\ UNCHANGED <<isLoading, localStorage, pending, now, mounted, ledger>>

\* Create New Character of the modal is clicked
ConfirmSwitchPerspectiveNew ==
    /\ mounted /\ isSwitchingPerspective
    /\ Click
    /\ character # NULL
    /\ Handoff("alive")
    /\ ResetToCreation
    /\ UNCHANGED <<localStorage, pending, now, mounted, ledger>>

(***************************************************************************)
(* The specification.                                                      *)
(***************************************************************************)
Next ==
    \/ Mount
    \/ \E creationMode \in {"detailed", "simple"}, world \in Worlds :
          NameSubmit(creationMode, world)
    \/ \E p \in pending, theme \in Themes, inventory \in StartingInventories :
          ScaffoldResolved(p, theme, inventory)
    \/ \E p \in pending : CreationRejected(p)
    \/ \E p \in pending, theme \in Themes, inventory \in StartingInventories :
          SimpleResolved(p, theme, inventory)
    \/ \E name \in Names : CharacterFinalize(name)
    \/ \E p \in pending : PrepareResolved(p)
    \/ \E p \in pending, turnResult \in TurnResults : FirstTurnResolved(p, turnResult)
    \/ \E p \in pending : FirstTurnRejected(p)
    \/ \E choice \in PlayerChoices : PlayerChoice(choice)
    \/ \E p \in pending, turnResult \in TurnResults : TurnResolved(p, turnResult)
    \/ \E p \in pending : TurnRejected(p)
    \/ LetFateDecide
    \/ \E p \in pending, turnResult \in TurnResults : FateResolved(p, turnResult)
    \/ \E p \in pending : FateRejected(p)
    \/ \E field \in {"backstory", "companions"} : CharacterUpdate(field)
    \/ Undo
    \/ SaveClicked
    \/ \E saveId \in ListedIds : LoadClicked(saveId)
    \/ \E saveId \in ListedIds : DeleteClicked(saveId)
    \/ StartAnew
    \/ ContinueAsNewCharacter
    \/ OpenSwitchPerspectiveModal
    \/ CloseSwitchPerspectiveModal
    \/ \E target \in AvailableCharacters : ConfirmSwitchPerspective(target)
    \/ ConfirmSwitchPerspectiveNew

Spec == Init /\ [][Next]_vars

\* a service call in flight returns: its promise resolves or rejects
Respond ==
    \E p \in pending :
       \/ \E theme \in Themes, inventory \in StartingInventories :
             ScaffoldResolved(p, theme, inventory) \/ SimpleResolved(p, theme, inventory)
       \/ CreationRejected(p)
       \/ PrepareResolved(p)
       \/ FirstTurnRejected(p) \/ TurnRejected(p) \/ FateRejected(p)
       \/ \E turnResult \in TurnResults :
             \/ FirstTurnResolved(p, turnResult)
             \/ TurnResolved(p, turnResult)
             \/ FateResolved(p, turnResult)

\* the program with every service call returning in the end
SpecLive == Spec /\ WF_vars(Respond)

(***************************************************************************)
(* The save repository seen from outside the screens: handleLoadGame       *)
(* called with any id, and a second tab writing the same key.              *)
(***************************************************************************)
\* ids a load can be asked for: the old save, the first character of this
\* run, the other tab's character
SaveIds == {0, 1, 9}

\* handleLoadGame(saveId), whatever the list shows
LoadRequested(saveId) ==
    /\ mounted
    /\ Click
    /\ LoadGame(saveId, <<>>)
    /\ UNCHANGED <<isLoading, localStorage, pending, now, mounted, ledger>>

\* the character played in the other tab
OtherCharacter == Character(9, "Cy", "Oakhaven", StartingHealth, <<>>)

OtherSave ==
    SaveData(GAMEPLAY, OtherCharacter, <<Message("system", "begins")>>, <<"go on">>, <<>>,
             NoneShared(OtherCharacter.inventory))

\* handleSaveGame runs in the other tab, after this tab has mounted
OtherTabSaves ==
    /\ mounted
    /\ localStorage.saves.kind # "corrupt"
    /\ LET allSaves == IF localStorage.saves.kind = "json"
                       THEN Parse(localStorage.saves) ELSE <<>>
       IN /\ SaveIndex(allSaves, OtherSave.id) = 0
          /\ localStorage' = [localStorage EXCEPT
                                !.saves = Stringify(Append(allSaves, OtherSave))]
    /\ UNCHANGED <<gameState, character, messages, choices, attackOptions, isLoading, error,
                   creatorOptions, savedGames, previousTurnState, isSwitchingPerspective,
                   pending, now, clicks, mounted, ledger>>
    /\ KeepContinuation

NextStore ==
    \/ Next
    \/ \E saveId \in SaveIds : LoadRequested(saveId)
    \/ OtherTabSaves

SpecStore == Init /\ [][NextStore]_vars

(***************************************************************************)
(* Two tabs listing the same saves: the other tab deletes one of them.     *)
(***************************************************************************)
\* handleDeleteGame runs in the other tab, after this tab has mounted
OtherTabDeletes(saveId) ==
    /\ mounted
    /\ localStorage.saves.kind = "json"
    /\ SaveIndex(localStorage.saves.slots, saveId) > 0
    /\ localStorage' = [localStorage EXCEPT
                          !.saves = Stringify(FilterOut(Parse(localStorage.saves), saveId))]
    /\ UNCHANGED <<gameState, character, messages, choices, attackOptions, isLoading, error,
                   creatorOptions, savedGames, previousTurnState, isSwitchingPerspective,
                   pending, now, clicks, mounted, ledger>>
    /\ KeepContinuation

NextTabs ==
    \/ Next
    \/ \E saveId \in SaveIds : OtherTabDeletes(saveId)

SpecTabs == Init /\ [][NextTabs]_vars

(***************************************************************************)
(* A session that has come back to a saved game.  The old save was loaded, *)
(* left by Switch Perspective and Create New Character, and loaded again   *)
(* from the list: four clicks after the mount effect.  The handlers run    *)
(* on from there.                                                          *)
(***************************************************************************)
InitReturned ==
    /\ gameState = OldSave.gameState
    /\ character = OldCharacter
    /\ messages = OldSave.messages
    /\ choices = OldSave.choices
    /\ attackOptions = OldSave.attackOptions
    /\ isLoading = FALSE
    /\ error = ""
    /\ creatorOptions = NULL
    /\ savedGames = <<[OldSave EXCEPT !.shared = AllShared(OldCharacter.inventory)]>>
    /\ previousTurnState = NULL
    /\ worldThemeForContinuation = ""
    /\ previousProtagonist = [name |-> OldCharacter.name, status |-> "alive"]
    /\ worldHistoryForContinuation = <<OldSave.messages>>
    /\ isSwitchingPerspective = FALSE
    /\ localStorage = [saves |-> Stringify(<<OldSave>>), archived |-> {}]
    /\ pending = {}
    /\ nameSubmitClosure = [history |-> <<OldSave.messages>>,
                            protagonist |-> [name |-> OldCharacter.name, status |-> "alive"]]
    /\ now = 1
    /\ clicks = 0
    /\ mounted = TRUE
    /\ ledger = NoLedger

NextReturned ==
    \/ \E creationMode \in {"detailed", "simple"}, world \in Worlds :
          NameSubmit(creationMode, world)
    \/ \E p \in pending, theme \in Themes, inventory \in StartingInventories :
          ScaffoldResolved(p, theme, inventory)
    \/ \E p \in pending : CreationRejected(p)
    \/ \E p \in pending, theme \in Themes, inventory \in StartingInventories :
          SimpleResolved(p, theme, inventory)
    \/ \E name \in Names : CharacterFinalize(name)
    \/ \E p \in pending : PrepareResolved(p)
    \/ \E p \in pending, turnResult \in TurnResults : FirstTurnResolved(p, turnResult)
    \/ \E p \in pending : FirstTurnRejected(p)
    \/ \E choice \in PlayerChoices : PlayerChoice(choice)
    \/ \E p \in pending, turnResult \in TurnResults : TurnResolved(p, turnResult)
    \/ \E p \in pending : TurnRejected(p)
    \/ LetFateDecide
    \/ \E p \in pending, turnResult \in TurnResults : FateResolved(p, turnResult)
    \/ \E p \in pending : FateRejected(p)
    \/ \E field \in {"backstory", "companions"} : CharacterUpdate(field)
    \/ Undo
    \/ SaveClicked
    \/ \E saveId \in ListedIds : LoadClicked(saveId)
    \/ \E saveId \in ListedIds : DeleteClicked(saveId)
    \/ StartAnew
    \/ ContinueAsNewCharacter
    \/ OpenSwitchPerspectiveModal
    \/ CloseSwitchPerspectiveModal
    \/ ConfirmSwitchPerspectiveNew

SpecReturned == InitReturned /\ [][NextReturned]_vars

(***************************************************************************)
(* SpecInventory: the Character Mutation Engine alone.  A character with   *)
(* one of the test inventories receives a sequence of inventory deltas,    *)
(* each applied as handlePlayerChoice and processTurnResult apply it; the  *)
(* ledger records the initial inventory and the deltas.                    *)
(***************************************************************************)
\* inventories with unique names
TestInventories ==
    {<<>>,
     <<Item("Torch", "starting", 1, "item")>>,
     <<Item("Sword", "starting", 1, "weapon"), Item("Torch", "starting", 2, "item")>>}

InitInventory ==
    /\ \E inventory \in TestInventories :
          /\ character = Character(1, "Bren", "Oakhaven", StartingHealth, inventory)
          /\ ledger = [initial |-> inventory, deltas |-> <<>>]
    /\ gameState = GAMEPLAY
    /\ messages = <<Message("system", "Your adventure begins..."), Message("game", "scene")>>
    /\ choices = <<"rest">>
    /\ attackOptions = <<>>
    /\ isLoading = FALSE
    /\ error = ""
    /\ creatorOptions = NULL
    /\ savedGames = <<>>
    /\ previousTurnState = NULL
    /\ worldThemeForContinuation = ""
    /\ previousProtagonist = NULL
    /\ worldHistoryForContinuation = <<>>
    /\ isSwitchingPerspective = FALSE
    /\ localStorage = [saves |-> Absent, archived |-> {}]
    /\ pending = {}
    /\ nameSubmitClosure = NoCtx
    /\ now = 2
    /\ clicks = 0
    /\ mounted = TRUE

\* one turn result carrying the delta, applied to the character
ApplyDelta(inventoryChange) ==
    /\ Len(ledger.deltas) < MaxDeltas
    /\ character' = NewCharacterState(character,
                        TurnResult(CHOOSE scene \in Scenes : ~scene.isCombat,
                                   character.health, inventoryChange, FALSE))
    /\ ledger' = [ledger EXCEPT !.deltas = Append(@, inventoryChange)]
    /\ UNCHANGED <<gameState, messages, choices, attackOptions, isLoading, error,
                   creatorOptions, savedGames, previousTurnState, isSwitchingPerspective,
                   localStorage, pending, now, clicks, mounted>>
    /\ KeepContinuation

NextInventory == \E inventoryChange \in InventoryChanges \ {NULL} : ApplyDelta(inventoryChange)

SpecInventory == InitInventory /\ [][NextInventory]_vars

(***************************************************************************)
(* Properties.                                                             *)
(***************************************************************************)
Last(s) == s[Len(s)]

\* C1: at every point at most one request to the narrative service (an
\* ordinary turn, let fate decide, or the first turn of a finalization) is
\* outstanding, and while one is outstanding isLoading is true, so that every
\* control that would issue another one is disabled or not rendered.
C1_OneTurnRequest ==
    /\ Cardinality(TurnRequests) <= 1
    /\ TurnRequests # {} => isLoading

\* an ordinary turn is in flight and the game screen withholds the turn input
C1_Witness ==
    /\ \E p \in TurnRequests : p.kind = "turn"
    /\ GameShown /\ gameState # GAME_OVER
    /\ ~TurnInputShown

\* C1 as stated: at most one turn request is outstanding, and a call of
\* submitTurn or finalizeCharacter made while isLoading is true changes no
\* Session state.  Quick creation calls handleCharacterFinalize with isLoading
\* already set by handleNameSubmit.
C1_CallsWhileLoadingRejected ==
    /\ [](Cardinality(TurnRequests) <= 1)
    /\ [][(isLoading /\
            \/ \E choice \in PlayerChoices : PlayerChoice(choice)
            \/ \E name \in Names : CharacterFinalize(name)
            \/ \E p \in pending, theme \in Themes, inventory \in StartingInventories :
                  SimpleResolved(p, theme, inventory))
          => session' = session]_vars

\* the session has moved on since the call p was issued: creation calls are
\* issued on the creation screens, a first turn for the character it installed
Stale(p) ==
    IF p.kind \in {"scaffold", "simple", "prepare"}
    THEN gameState \notin {START, FINALIZE}
    ELSE character = NULL \/ character.id # p.character.id

\* C2: a response of the narrative or creation service that resolves after
\* the session has moved on since its request was issued (a save was loaded,
\* the session was reset, undo ran) changes none of phase, character,
\* messages, choices, attackOptions.
C2_StaleResponsesDiscarded ==
    [][\A p \in pending : (p \notin pending' /\ Stale(p)) => session' = session]_vars

\* C3: when the narrative service fails on an ordinary turn, the failure
\* changes neither phase nor character (the character is the pre-submit one
\* with the sheet edits made while the request was in flight), lastError is
\* set, the log is the pre-submit log followed by the player's message and
\* exactly one system error message, and the snapshot of this turn is present.
C3_FailureLeavesState ==
    [][\A p \in pending : TurnRejected(p) =>
        /\ UNCHANGED <<gameState, character, choices, attackOptions>>
        /\ previousTurnState' # NULL
        /\ gameState' = previousTurnState'.gameState
        /\ \A field \in DOMAIN character \ {"backstory", "companions"} :
              character'[field] = previousTurnState'.character[field]
        /\ error' # ""
        /\ messages' = previousTurnState'.messages \o
                          <<Message("player", p.prompt), Message("system", TurnErrorText)>>]_vars

\* a turn has failed after the sheet was edited while it was in flight
C3_Witness ==
    /\ previousTurnState # NULL
    /\ error # ""
    /\ messages = previousTurnState.messages \o
                     <<Message("player", "I act"), Message("system", TurnErrorText)>>
    /\ character # previousTurnState.character
    /\ pending = {}

\* C3 as stated: after the failure phase and character equal their pre-submit
\* values.
C3_FailureLeavesPreSubmit ==
    [][\A p \in pending : TurnRejected(p) =>
        /\ previousTurnState' # NULL
        /\ gameState' = previousTurnState'.gameState
        /\ character' = previousTurnState'.character
        /\ error' # ""
        /\ messages' = previousTurnState'.messages \o
                          <<Message("player", p.prompt), Message("system", TurnErrorText)>>]_vars

\* C4: if the first turn of a finalization fails, the session is as it was
\* before the finalization: the character it built is not installed, the log
\* holds none of its messages, and a continuation it ran under is still
\* active.
C4_FirstTurnFailureRollsBack ==
    [][\A p \in pending : FirstTurnRejected(p) =>
        /\ character' # p.character
        /\ \A i \in 1..Len(messages') : messages'[i].text # TurnErrorText
        /\ (p.ctx.history # <<>> /\ p.ctx.protagonist # NULL) => CurrentCtx' = p.ctx]_vars

\* C5: after every successful ordinary turn the phase is GAME_OVER if and
\* only if the result's isGameOver is true or the character's health after
\* the mutation is <= 0, whatever isCombat is; otherwise it is COMBAT when
\* isCombat is true and GAMEPLAY when it is false.
C5_PhaseAfterTurn ==
    [][\A p \in pending \ pending' : p.kind = "turn" =>
          \A turnResult \in TurnResults :
              \/ gameState' = IF turnResult.isGameOver \/ character'.health <= 0 THEN GAME_OVER
                              ELSE IF turnResult.isCombat THEN COMBAT
                              ELSE GAMEPLAY
              \/ ~TurnResolved(p, turnResult)]_vars

\* an ordinary turn has ended the game by health alone
C5_Witness ==
    /\ gameState = GAME_OVER
    /\ character # NULL /\ character.health <= 0
    /\ Len(messages) >= 2
    /\ Last(messages).speaker = "game"
    /\ messages[Len(messages) - 1].speaker = "player"

LegalPhaseChanges ==
    {<<START, FINALIZE>>, <<START, GAMEPLAY>>, <<START, COMBAT>>,
     <<FINALIZE, GAMEPLAY>>, <<FINALIZE, COMBAT>>,
     <<GAMEPLAY, COMBAT>>, <<COMBAT, GAMEPLAY>>,
     <<GAMEPLAY, GAME_OVER>>, <<COMBAT, GAME_OVER>>,
     <<GAME_OVER, GAMEPLAY>>, <<GAME_OVER, COMBAT>>, <<GAME_OVER, START>>,
     <<GAMEPLAY, START>>, <<COMBAT, START>>}

LoadOrUndo ==
    \/ Undo
    \/ \E saveId \in ListedIds : LoadClicked(saveId)
    \/ \E target \in AvailableCharacters : ConfirmSwitchPerspective(target)

\* C6: the phase starts at START and, apart from load and undo, every change
\* of phase is one of START->FINALIZE, START->GAMEPLAY|COMBAT,
\* FINALIZE->GAMEPLAY|COMBAT, GAMEPLAY<->COMBAT, GAMEPLAY|COMBAT->GAME_OVER,
\* GAME_OVER->GAMEPLAY|COMBAT, GAME_OVER->START, GAMEPLAY|COMBAT->START.
C6_LegalPhaseChanges ==
    /\ gameState = START
    /\ [][gameState' # gameState =>
            LoadOrUndo \/ <<gameState, gameState'>> \in LegalPhaseChanges]_vars

LowerNames == {ToLowerCase(n) : n \in ItemNames}

\* positions of the entries named n, whatever the casing
Entries(inventory, n) == {i \in 1..Len(inventory) : ToLowerCase(inventory[i].name) = n}

\* the quantity held under n; 0 when there is no entry
Held(inventory, n) ==
    IF Entries(inventory, n) = {} THEN 0
    ELSE inventory[CHOOSE i \in Entries(inventory, n) : TRUE].quantity

\* adds minus removes of n over the deltas, from q, floored at zero
RECURSIVE Balance(_, _, _)
Balance(q, n, deltas) ==
    IF deltas = <<>> THEN q
    ELSE LET d == Head(deltas)
             q2 == IF ToLowerCase(d.item.name) # n THEN q
                   ELSE IF d.action = "add" THEN q + d.item.quantity
                   ELSE IF q - d.item.quantity > 0 THEN q - d.item.quantity
                   ELSE 0
         IN Balance(q2, n, Tail(deltas))

\* C7: after any sequence of add/remove deltas applied to an inventory with
\* unique names, the quantity held per case-insensitive name is the sum of
\* adds minus removes floored at zero (no entry at zero), no entry has a
\* quantity <= 0 and no two entries share a case-insensitive name.
C7_InventoryReconciled ==
    /\ \A n \in LowerNames :
          /\ Cardinality(Entries(character.inventory, n)) <= 1
          /\ Held(character.inventory, n) = Balance(Held(ledger.initial, n), n, ledger.deltas)
    /\ \A i \in 1..Len(character.inventory) : character.inventory[i].quantity > 0

\* an entry was stacked onto, then removed down to nothing
C7_Witness ==
    /\ Len(ledger.deltas) >= 2
    /\ \E n \in LowerNames :
          /\ Held(ledger.initial, n) > 0
          /\ Held(character.inventory, n) = 0
          /\ Entries(character.inventory, n) = {}
          /\ \E k \in 1..Len(ledger.deltas) :
                ledger.deltas[k].action = "add" /\ ToLowerCase(ledger.deltas[k].item.name) = n

\* the delta the step applied
LastDelta == ledger'.deltas[Len(ledger'.deltas)]

\* C8: an add whose name matches an entry case-insensitively keeps the number
\* of entries; the matched entry keeps its name casing, description and type
\* and its quantity grows by the delta's quantity; every other entry is
\* unchanged; an add matching no entry appends the delta item unchanged at
\* the end.
C8_AddStacksOrAppends ==
    [][(ledger' # ledger /\ LastDelta.action = "add") =>
        LET old == character.inventory
            new == character'.inventory
            item == LastDelta.item
            matches == Entries(old, ToLowerCase(item.name))
        IN IF matches # {}
           THEN /\ Len(new) = Len(old)
                /\ \A i \in 1..Len(old) :
                      IF i \in matches
                      THEN /\ new[i].name = old[i].name
                           /\ new[i].description = old[i].description
                           /\ new[i].type = old[i].type
                           /\ new[i].quantity = old[i].quantity + item.quantity
                      ELSE new[i] = old[i]
           ELSE new = old \o <<item>>]_vars

\* a stacking add under a different casing has been applied to an inventory of
\* two entries, and an appending add as well
C8_Witness ==
    /\ Len(ledger.deltas) >= 2
    /\ \E k \in 1..Len(ledger.deltas) :
          /\ ledger.deltas[k].action = "add"
          /\ ledger.deltas[k].item.name = "torch"
          /\ \E i \in 1..Len(character.inventory) :
                /\ character.inventory[i].name = "Torch"
                /\ character.inventory[i].description = "starting"
                /\ character.inventory[i].quantity > ledger.initial[Len(ledger.initial)].quantity
    /\ \E i \in 1..Len(character.inventory) : character.inventory[i].description = "found"

\* C9: after every successful ordinary or let-fate-decide turn the
\* character's health is the result's updatedHealth exactly: not added to the
\* previous health, not clamped to [0, maxHealth].
C9_HealthReplaced ==
    [][\A p \in pending \ pending' : p.kind \in {"turn", "fate"} =>
          \A turnResult \in TurnResults :
              \/ character'.health = turnResult.updatedHealth
              \/ ~(TurnResolved(p, turnResult) \/ FateResolved(p, turnResult))]_vars

\* a turn has left the character above maxHealth
C9_Witness ==
    /\ character # NULL
    /\ character.health > character.maxHealth
    /\ Last(messages).speaker = "game"

\* C10: the snapshot submitTurn takes holds the five fields as they are
\* immediately before it; until undo runs or the snapshot is cleared no step
\* that is not a submitTurn changes it, whether the turn succeeds (short of
\* GAME_OVER) or fails, and whatever the turn does to the inventory; undo
\* sets the five fields to the snapshot's and clears the snapshot.
C10_UndoRestoresPreSubmit ==
    [][/\ (\E choice \in PlayerChoices : PlayerChoice(choice)) =>
              SnapshotSession(previousTurnState') = session
       /\ (previousTurnState # NULL /\ ~(\E choice \in PlayerChoices : PlayerChoice(choice))) =>
              \/ previousTurnState' = NULL
              \/ SnapshotSession(previousTurnState') = SnapshotSession(previousTurnState)
       /\ Undo => (session' = SnapshotSession(previousTurnState) /\ previousTurnState' = NULL)]_vars

\* a turn has changed a quantity of the inventory and undo is on offer
C10_Witness ==
    /\ UndoEnabled
    /\ Len(character.inventory) = Len(previousTurnState.character.inventory)
    /\ \E i \in 1..Len(character.inventory) :
          character.inventory[i].quantity # previousTurnState.character.inventory[i].quantity
    /\ Last(messages).speaker = "game"

\* C11: one undo level is retained.  Each submitTurn replaces whatever
\* snapshot there was by the snapshot of the session it starts from; only a
\* submitTurn creates a snapshot; undo consumes it, so that after an undo no
\* undo is on offer until the next submitTurn: a second undo in a row changes
\* nothing.
C11_OneUndoLevel ==
    [][/\ (\E choice \in PlayerChoices : PlayerChoice(choice)) =>
              previousTurnState' = TurnState(gameState, character, messages, choices,
                                             attackOptions)
       /\ (previousTurnState = NULL /\ previousTurnState' # NULL) =>
              \E choice \in PlayerChoices : PlayerChoice(choice)
       /\ Undo => (previousTurnState' = NULL /\ ~UndoEnabled')]_vars

\* a second submitTurn has replaced the snapshot of the first: the snapshot
\* holds the log with the first turn's player message
C11_Witness ==
    /\ previousTurnState # NULL
    /\ \E i \in 1..Len(previousTurnState.messages) :
          previousTurnState.messages[i].speaker = "player"
    /\ Len(messages) > Len(previousTurnState.messages)

\* C12: no snapshot exists in a state whose phase is GAME_OVER, nor right
\* after a load, start anew, continue as new character, create-new perspective
\* switch, a let-fate-decide turn or the first turn of a finalization.
C12_NoSnapshotAcrossCharacters ==
    /\ [](gameState = GAME_OVER => previousTurnState = NULL)
    /\ [][(\/ \E saveId \in ListedIds : LoadClicked(saveId)
           \/ \E target \in AvailableCharacters : ConfirmSwitchPerspective(target)
           \/ StartAnew
           \/ ContinueAsNewCharacter
           \/ ConfirmSwitchPerspectiveNew
           \/ LetFateDecide
           \/ \E p \in pending \ pending' : p.kind \in {"fate", "first"})
          => previousTurnState' = NULL]_vars

\* the player has left a character whose last turn could still be undone:
\* creation is open under a continuation from a living protagonist
C12_Witness ==
    /\ gameState = START
    /\ previousProtagonist # NULL /\ previousProtagonist.status = "alive"
    /\ previousTurnState = NULL
    /\ \E i \in 1..Len(worldHistoryForContinuation[1]) :
          worldHistoryForContinuation[1][i].speaker = "player"

\* C13: undo takes effect only when a snapshot exists and no turn is in
\* flight: no undo step happens while isLoading is true or a turn request is
\* outstanding, so while an ordinary turn is outstanding the log is the one
\* that was sent and the snapshot of the turn is in place: the result is
\* never applied on top of a rolled-back session.
C13_NoUndoInFlight ==
    /\ [][Undo => (previousTurnState # NULL /\ ~isLoading /\ TurnRequests = {})]_vars
    /\ [](\A p \in pending : p.kind = "turn" =>
              (messages = p.sent /\ previousTurnState # NULL /\ ~UndoEnabled))

\* a turn is in flight, its snapshot exists, and the Undo button is disabled
C13_Witness ==
    /\ \E p \in pending : p.kind = "turn"
    /\ isLoading
    /\ previousTurnState # NULL
    /\ GameShown /\ gameState # GAME_OVER
    /\ ~UndoEnabled

\* C14: a save either writes nothing or leaves, in the known collection and in
\* the store, a slot under the live character's id whose phase, character,
\* messages, choices and attackOptions are the live session's; a load of an
\* id the known collection holds makes the live session equal to that slot.
\* So a load of the character's id right after a written save yields the
\* session that was saved.
C14_SaveLoadRoundTrip ==
    [][/\ (SaveClicked \/ OpenSwitchPerspectiveModal) =>
            \/ UNCHANGED <<savedGames, localStorage>>
            \/ LET known == SaveIndex(savedGames', character.id)
                   stored == Parse(localStorage'.saves)
               IN /\ known > 0
                  /\ SlotSession(savedGames'[known]) = session
                  /\ SaveIndex(stored, character.id) > 0
                  /\ SlotSession(stored[SaveIndex(stored, character.id)]) = session
       /\ \A saveId \in SaveIds :
             ((LoadRequested(saveId) \/ LoadClicked(saveId))
                 /\ SaveIndex(savedGames, saveId) > 0) =>
                session' = SlotSession(savedGames[SaveIndex(savedGames, saveId)])]_vars

\* a turn was played, the session saved and loaded again
C14_Witness ==
    /\ character # NULL /\ gameState \in {GAMEPLAY, COMBAT}
    /\ previousTurnState = NULL
    /\ Len(messages) = 4
    /\ messages[3].speaker = "player" /\ messages[4].speaker = "game"
    /\ SaveIndex(savedGames, character.id) > 0
    /\ SlotSession(savedGames[SaveIndex(savedGames, character.id)]) = session
    /\ localStorage.saves = Stringify(savedGames)
\* the ids of a collection are pairwise different
UniqueIds(allSaves) ==
    \A i, j \in 1..Len(allSaves) : allSaves[i].id = allSaves[j].id => i = j

\* C15: the store never holds two slots of one character id, and neither
\* does the known collection.  A save that writes replaces the slot of the
\* character's id where it stands, or appends a slot when the id is new, and
\* every other slot is written back as it was read.
C15_OneSlotPerId ==
    /\ [](UniqueIds(localStorage.saves.slots) /\ UniqueIds(savedGames))
    /\ [][(SaveClicked \/ OpenSwitchPerspectiveModal) =>
            \/ UNCHANGED localStorage
            \/ LET before == localStorage.saves.slots
                   after == localStorage'.saves.slots
                   saveIndex == SaveIndex(before, character.id)
                   place == IF saveIndex > 0 THEN saveIndex ELSE Len(before) + 1
               IN /\ Len(after) = IF saveIndex > 0 THEN Len(before) ELSE Len(before) + 1
                  /\ after[place].id = character.id
                  /\ \A i \in 1..Len(before) : i # place => after[i] = before[i]]_vars

\* a save replaced the first slot where it stood, the second slot being the
\* other tab's
C15_Witness ==
    /\ Len(localStorage.saves.slots) = 2
    /\ Len(savedGames) = 2 /\ savedGames[2].id = OtherSave.id
    /\ localStorage.saves.slots[1].id = OldSave.id
    /\ localStorage.saves.slots[1] # Stringify(<<OldSave>>).slots[1]
    /\ localStorage.saves.slots[2].id # OldSave.id
\* C16: handleLoadGame called with an id the known collection does not hold
\* sets the error and changes neither phase, character, messages, choices,
\* attackOptions, nor the undo snapshot, nor the continuation state.
C16_LoadOfUnknownId ==
    [][\A saveId \in SaveIds :
          (LoadRequested(saveId) /\ SaveIndex(savedGames, saveId) = 0) =>
             /\ error' = LoadError
             /\ UNCHANGED <<session, previousTurnState, continuation>>]_vars

\* a load failed in the middle of play, a snapshot being held
C16_Witness ==
    /\ error = LoadError
    /\ previousTurnState # NULL
    /\ character # NULL /\ gameState \in {GAMEPLAY, COMBAT}
\* C17: every load that finds its slot leaves no undo snapshot and no
\* continuation state: world theme, previous protagonist and prior history
\* are all cleared.
C17_LoadClearsTransientState ==
    [][((\E saveId \in ListedIds : LoadClicked(saveId))
           \/ (\E target \in AvailableCharacters : ConfirmSwitchPerspective(target))) =>
          /\ previousTurnState' = NULL
          /\ worldThemeForContinuation' = ""
          /\ previousProtagonist' = NULL
          /\ worldHistoryForContinuation' = <<>>]_vars
\* the blob under the save key is a string JSON.parse throws on
Unparsable == localStorage.saves.kind \in {"corrupt", "empty"}

\* C18 as stated: whenever the mount effect lists the saves while the stored
\* blob is unparsable, the list is empty, the raw blob is afterwards held
\* under an archive key, the save key is removed and a warning is shown.
C18_UnparsableAlwaysArchived ==
    [][(Mount /\ Unparsable) =>
          /\ savedGames' = <<>>
          /\ localStorage.saves \in localStorage'.archived
          /\ localStorage'.saves = Absent
          /\ error' # ""]_vars

\* C18: the mount effect always completes with an empty list when the stored
\* blob is unparsable.  For a non-empty blob a warning is shown and either
\* the blob was read and copied under an archive key and the save key then
\* removed, or (getItem or the archive write threw) the store is left as it
\* was.  An empty string is taken for no blob at all: the store is left as
\* it was and no warning about the blob is shown.
C18_UnparsableQuarantined ==
    [][(Mount /\ Unparsable) =>
          /\ mounted' /\ savedGames' = <<>>
          /\ localStorage.saves.kind = "corrupt" =>
                \/ /\ error' = ArchiveNotice
                   /\ localStorage'.archived = localStorage.archived \cup {localStorage.saves}
                   /\ localStorage'.saves = Absent
                \/ /\ error' \in {ArchiveFailed, StorageDisabled}
                   /\ UNCHANGED localStorage
          /\ localStorage.saves.kind = "empty" =>
                /\ error' \in {"", StorageDisabled}
                /\ UNCHANGED localStorage]_vars

\* the blob was archived and the save key removed
C18_Witness ==
    /\ mounted /\ savedGames = <<>>
    /\ Corrupt \in localStorage.archived
    /\ localStorage.saves = Absent
    /\ error = ArchiveNotice
\* C19 as stated: no step replaces or removes an unparsable blob under the
\* save key unless the blob is afterwards held under an archive key.
C19_UnparsableNeverLost ==
    [][(Unparsable /\ localStorage'.saves # localStorage.saves) =>
          localStorage.saves \in localStorage'.archived]_vars

\* C19: no step (mount, save, delete, with or without a store access that
\* throws) replaces or removes a non-empty
\* unparsable blob under the save key unless the blob is afterwards held under
\* an archive key, and no step removes an archive key.  An empty string under
\* the save key is replaced by the first save.
C19_CorruptNeverLost ==
    [][/\ (localStorage.saves.kind = "corrupt"
             /\ localStorage'.saves # localStorage.saves) =>
            localStorage.saves \in localStorage'.archived
       /\ localStorage.archived \subseteq localStorage'.archived]_vars

\* the blob was archived at mount, and a save has since started a new collection
C19_Witness ==
    /\ Corrupt \in localStorage.archived
    /\ localStorage.saves.kind = "json"
    /\ Len(localStorage.saves.slots) > 0
\* every stored slot whose id is not `id` is still stored after the step
OtherSlotsKept(id) ==
    \A i \in 1..Len(localStorage.saves.slots) :
        localStorage.saves.slots[i].id # id =>
            \E j \in 1..Len(localStorage'.saves.slots) :
                localStorage'.saves.slots[j] = localStorage.saves.slots[i]

\* C20: a save keeps every stored slot of another character id and a delete
\* keeps every stored slot of another id, whether or not this session has
\* read that slot before: the slot the other tab wrote after this session's
\* mount is still stored afterwards.
C20_WritersReRead ==
    [][/\ (SaveClicked \/ OpenSwitchPerspectiveModal) => OtherSlotsKept(character.id)
       /\ \A saveId \in ListedIds : DeleteClicked(saveId) => OtherSlotsKept(saveId)]_vars

\* the old save was deleted after the other tab had saved: the other tab's
\* slot is what the store and the known collection hold
C20_Witness ==
    /\ localStorage.saves = Stringify(<<OtherSave>>)
    /\ Len(savedGames) = 1 /\ savedGames[1].id = OtherSave.id
    /\ character = NULL /\ gameState = START
\* C21: a delete either fails (error set, store and known collection as they
\* were) or writes the stored slots without those of the deleted id, the
\* others as they were and in their order, and makes the known collection
\* what was written.  Either way phase, character, messages, choices and
\* attackOptions are left alone.
C21_DeleteRemovesOneSlot ==
    [][\A saveId \in ListedIds : DeleteClicked(saveId) =>
          /\ UNCHANGED session
          /\ \/ /\ error' = DeleteError
                /\ UNCHANGED <<localStorage, savedGames>>
             \/ /\ UNCHANGED error
                /\ localStorage'.saves.kind = "json"
                /\ localStorage'.saves.slots =
                      SelectSeq(localStorage.saves.slots, LAMBDA slot : slot.id # saveId)
                /\ Stringify(savedGames') = localStorage'.saves
                /\ localStorage'.archived = localStorage.archived]_vars

\* the old save was deleted without an error; the slot of the other tab,
\* which stood behind it, is what is left
C21_Witness ==
    /\ mounted /\ error = ""
    /\ localStorage.saves.kind = "json"
    /\ Len(localStorage.saves.slots) = 1
    /\ localStorage.saves.slots[1] = Stringify(<<OtherSave>>).slots[1]
    /\ Stringify(savedGames) = localStorage.saves
    /\ session = <<START, NULL, <<>>, <<>>, <<>>>>
\* C22: a delete of an id the stored collection does not hold shows an error
\* and changes neither the store, nor the known collection, nor the live
\* session.
C22_DeleteOfMissingId ==
    [][\A saveId \in ListedIds :
          (DeleteClicked(saveId) /\ SaveIndex(localStorage.saves.slots, saveId) = 0) =>
             /\ error' # ""
             /\ UNCHANGED <<localStorage, savedGames, session>>]_vars
\* C23: while the modal is open over a live character, a known save is
\* offered as a switch target if and only if its character has the live
\* character's theme and another id; and every switch to an existing save
\* lands on the character of the chosen id, which has the departing
\* character's theme and is not the departing character.
C23_SwitchTargets ==
    /\ [](isSwitchingPerspective /\ character # NULL =>
            \A i \in 1..Len(savedGames) :
                savedGames[i].id \in AvailableCharacters <=>
                    /\ savedGames[i].character.theme = character.theme
                    /\ savedGames[i].character.id # character.id)
    /\ [][\A target \in ListedIds : ConfirmSwitchPerspective(target) =>
              /\ character'.id = target
              /\ character'.id # character.id
              /\ character'.theme = character.theme]_vars

\* the modal is open: the live character's own slot is known but not offered,
\* a slot of the same theme is offered
C23_Witness ==
    /\ isSwitchingPerspective /\ character # NULL
    /\ SaveIndex(savedGames, character.id) > 0
    /\ AvailableCharacters # {}
\* the collection holds a slot of the live character with the live session
HoldsDeparting(allSaves) ==
    /\ SaveIndex(allSaves, character.id) > 0
    /\ SlotSession(allSaves[SaveIndex(allSaves, character.id)]) = session

\* C24: when a switch away from the live character completes, by choosing an
\* existing save or by Create New Character, the store and the known
\* collection hold a slot of the departing character's id with its phase,
\* character, messages, choices and attackOptions.
C24_DepartingCharacterSaved ==
    [][(ConfirmSwitchPerspectiveNew
          \/ \E target \in ListedIds : ConfirmSwitchPerspective(target)) =>
          /\ localStorage'.saves.kind = "json"
          /\ HoldsDeparting(Parse(localStorage'.saves))
          /\ HoldsDeparting(savedGames')]_vars
\* C25: a switch to an existing save makes phase, character, choices and
\* attackOptions those of the known slot of the chosen id, and makes the log
\* that slot's messages followed by one system message that names the
\* departing character and carries the last messages (at most five) of the
\* departing character's log.
C25_SwitchLoadsWithContext ==
    [][\A target \in ListedIds : ConfirmSwitchPerspective(target) =>
          LET saveData == savedGames[SaveIndex(savedGames, target)]
              loaded == Len(saveData.messages)
          IN /\ gameState' = saveData.gameState
             /\ character' = saveData.character
             /\ choices' = saveData.choices
             /\ attackOptions' = saveData.attackOptions
             /\ Len(messages') = loaded + 1
             /\ SubSeq(messages', 1, loaded) = saveData.messages
             /\ messages'[loaded + 1].speaker = "system"
             /\ messages'[loaded + 1].about = character.name
             /\ messages'[loaded + 1].recentEvents =
                   SubSeq(messages, IF Len(messages) > 5 THEN Len(messages) - 4 ELSE 1,
                          Len(messages))]_vars

\* the saved game was entered from a character created in this run
C25_Witness ==
    /\ character # NULL /\ character.id = OldSave.id
    /\ Len(messages) = Len(OldSave.messages) + 1
    /\ Last(messages).speaker = "system"
    /\ Last(messages).text = "*** MEANWHILE ***"
    /\ Last(messages).about # character.name
    /\ Last(messages).recentEvents # <<>>
    /\ ~isSwitchingPerspective
\* what a continuity flow leaves behind
HandedOff(status) ==
    /\ gameState' = START
    /\ character' = NULL
    /\ messages' = <<>>
    /\ worldThemeForContinuation' = character.theme
    /\ previousProtagonist' = [name |-> character.name, status |-> status]
    /\ worldHistoryForContinuation' = <<messages>>

\* C26: continue-as-new-character and the create-new perspective switch both
\* leave the creation start phase with no character and an empty log, the
\* world theme of the departing character and that character's whole log as
\* prior history; the previous protagonist carries the departing character's
\* name, dead after continue-as-new-character and alive after create-new.
C26_ContinuityHandoff ==
    [][/\ ContinueAsNewCharacter => HandedOff("dead")
       /\ ConfirmSwitchPerspectiveNew => HandedOff("alive")]_vars

\* a character died after a turn and the player continues with a new one
C26_Witness ==
    /\ gameState = START /\ character = NULL /\ messages = <<>>
    /\ previousProtagonist # NULL /\ previousProtagonist.status = "dead"
    /\ worldThemeForContinuation = OldCharacter.theme
    /\ Len(worldHistoryForContinuation) = 1
    /\ Len(worldHistoryForContinuation[1]) = Len(OldSave.messages) + 2
\* C27: when the first turn of a character created after the previous
\* protagonist's death succeeds, the phase is one the turn resolves to and the
\* log starts with the whole log of the previous protagonist.
C27_ContinuationSeedsLog ==
    [][\A p \in pending \ pending' :
          (/\ p.kind = "first"
           /\ p.ctx.history # <<>> /\ p.ctx.protagonist # NULL
           /\ p.ctx.protagonist.status = "dead") =>
             \A turnResult \in TurnResults :
                \/ /\ gameState' \in {GAMEPLAY, COMBAT, GAME_OVER}
                   /\ Len(messages') >= Len(p.ctx.history[1])
                   /\ SubSeq(messages', 1, Len(p.ctx.history[1])) = p.ctx.history[1]
                \/ ~FirstTurnResolved(p, turnResult)]_vars
\* the request and the log of a game that starts fresh
FreshStart(p) ==
    /\ p.prompt = "The adventure begins."
    /\ p.sent = <<Message("system", "Your adventure begins...")>>
    /\ messages' = p.sent

\* C28: start-anew clears the world theme, the previous protagonist and the
\* prior history; and a character finalized while these are clear, as they
\* are from start-anew on, starts a fresh game: the first turn is asked with
\* the adventure-begins input and the log holds the scene-setting line only.
C28_StartAnewNoContinuity ==
    [][/\ StartAnew =>
            /\ worldThemeForContinuation' = ""
            /\ previousProtagonist' = NULL
            /\ worldHistoryForContinuation' = <<>>
       /\ (worldThemeForContinuation = "" /\ previousProtagonist = NULL
              /\ worldHistoryForContinuation = <<>>) =>
            \A p \in pending' \ pending : p.kind = "first" => FreshStart(p)]_vars
\* C29: a let-fate-decide turn that fails leaves the phase GAME_OVER and does
\* not touch the character; one that succeeds leaves GAMEPLAY or COMBAT if
\* the result has isGameOver false and updatedHealth above 0, and GAME_OVER
\* otherwise.
C29_FateEndsConsistent ==
    [][\A p \in pending \ pending' : p.kind = "fate" =>
          /\ FateRejected(p) => (gameState' = GAME_OVER /\ UNCHANGED character)
          /\ \A turnResult \in TurnResults :
                \/ IF ~turnResult.isGameOver /\ turnResult.updatedHealth > 0
                   THEN gameState' \in {GAMEPLAY, COMBAT}
                   ELSE gameState' = GAME_OVER
                \/ ~FateResolved(p, turnResult)]_vars

\* fate was asked and the call failed
C29_Witness ==
    /\ gameState = GAME_OVER /\ character # NULL /\ ~isLoading
    /\ error = TurnError
    /\ Len(messages) >= 2
    /\ Last(messages) = Message("system", FateErrorText)
    /\ messages[Len(messages) - 1] = FateMessage
\* C30: with every service call returning in the end, isLoading does not stay
\* true: from every state where it is true, whichever of name submission,
\* finalization, ordinary turn or let-fate-decide set it, a state is reached
\* where it is false.
C30_LoadingEnds == isLoading ~> ~isLoading

\* an ordinary turn was asked, the call failed, and loading has ended
C30_Witness ==
    /\ ~isLoading /\ pending = {}
    /\ error = TurnError
    /\ previousTurnState # NULL
    /\ Last(messages) = Message("system", TurnErrorText)

(***************************************************************************)
(* C31 -- no terminal state                                                *)
(***************************************************************************)
\* some control that starts a handler can be operated (the character sheet,
\* which only edits the live character, is not counted)
IntentEnabled ==
    \/ NameButtonsEnabled
    \/ ForgeEnabled /\ creatorOptions # NULL
    \/ SavedGamesListed /\ ListedIds # {}
    \/ TurnInputShown
    \/ GameOverExitsShown
    \/ HeaderEnabled
    \/ UndoEnabled
    \/ mounted /\ isSwitchingPerspective

\* C31 as stated, its second part: in every GAME_OVER state the three exits
\* (Start Anew, Continue as Another Hero, Let Fate Decide) can be operated.
C31_EveryGameOverHasExits == gameState = GAME_OVER => GameOverExitsShown

\* C31 (amended): in every state with no service call in flight some player
\* intent can be operated; in every GAME_OVER state with no service call in
\* flight the three exits can be operated; Start Anew and Continue as Another
\* Hero lead to CHARACTER_CREATION_START.
C31_NoTerminalState ==
    /\ [](mounted /\ pending = {} => IntentEnabled)
    /\ [](gameState = GAME_OVER /\ pending = {} => GameOverExitsShown)
    /\ [][StartAnew \/ ContinueAsNewCharacter => gameState' = START]_vars

\* a failed Let Fate Decide has put the session back in GAME_OVER with its exits
C31_Witness ==
    /\ gameState = GAME_OVER /\ pending = {}
    /\ GameOverExitsShown
    /\ Last(messages) = Message("system", FateErrorText)

(***************************************************************************)
(* C32 -- the first turn of a finalized character                          *)
(***************************************************************************)
\* C32: when the first turn of handleCharacterFinalize succeeds, the new
\* character is the Character Mutation Engine's result (health equal to the
\* result's updatedHealth, inventory changed by its inventoryChange), and a
\* result with isGameOver or health <= 0 puts the session in GAME_OVER.
C32_FirstTurnApplied ==
    [][\A p \in pending \ pending' :
          p.kind = "first" =>
             \A turnResult \in TurnResults :
                \/ /\ character' # NULL
                   /\ character'.health = turnResult.updatedHealth
                   /\ character'.inventory =
                         ApplyInventoryChange(character.inventory, turnResult.inventoryChange)
                   /\ IsGameOver(turnResult, turnResult.updatedHealth) =>
                         gameState' = GAME_OVER
                \/ ~FirstTurnResolved(p, turnResult)]_vars

(***************************************************************************)
(* C33 -- the message log under turns                                      *)
(***************************************************************************)
\* C33: when an ordinary turn completes, the log is the log before the
\* submission (the one the undo snapshot holds) followed by the player's
\* message and then one game message or one system error message; when a Let
\* Fate Decide turn completes, the log is the log handed to the service, which
\* ends with the system framing message, followed by one game or system error
\* message; submitting either turn appends exactly its first message.
C33_LogAppendOnly ==
    /\ [][\A p \in pending \ pending' :
            p.kind = "turn" =>
               /\ previousTurnState # NULL
               /\ LET pre == previousTurnState.messages IN
                    /\ Len(messages') = Len(pre) + 2
                    /\ SubSeq(messages', 1, Len(pre)) = pre
                    /\ messages'[Len(pre) + 1].speaker = "player"
                    /\ \/ messages'[Len(pre) + 2].speaker = "game"
                       \/ messages'[Len(pre) + 2] = Message("system", TurnErrorText)]_vars
    /\ [][\A p \in pending \ pending' :
            p.kind = "fate" =>
               /\ messages = p.sent
               /\ Last(p.sent) = FateMessage
               /\ Len(messages') = Len(p.sent) + 1
               /\ SubSeq(messages', 1, Len(p.sent)) = p.sent
               /\ \/ Last(messages').speaker = "game"
                  \/ Last(messages') = Message("system", FateErrorText)]_vars
    /\ [][(\E choice \in PlayerChoices : PlayerChoice(choice)) \/ LetFateDecide =>
            /\ Len(messages') = Len(messages) + 1
            /\ SubSeq(messages', 1, Len(messages)) = messages
            /\ Last(messages').speaker \in {"player", "system"}]_vars

\* a turn on the loaded game succeeded, then Let Fate Decide failed
C33_Witness ==
    /\ pending = {} /\ gameState = GAME_OVER
    /\ Len(messages) = Len(OldSave.messages) + 4
    /\ SubSeq(messages, 1, Len(OldSave.messages)) = OldSave.messages
    /\ messages[Len(messages) - 3].speaker = "player"
    /\ messages[Len(messages) - 2].speaker = "game"
    /\ messages[Len(messages) - 1] = FateMessage
    /\ Last(messages) = Message("system", FateErrorText)

(***************************************************************************)
(* C34 -- what a turn changes of the character                             *)
(***************************************************************************)
\* the fields of the model's character a turn result has no value for
FrameFields == {"id", "name", "theme", "maxHealth", "backstory", "companions"}

\* C34 as stated: after any successful or failed turn the character's id,
\* name, theme, maxHealth, backstory and companions equal their values at
\* submission.
C34_OnlyHealthAndInventory ==
    [][\A p \in pending \ pending' :
          p.kind \in {"turn", "fate"} =>
             /\ character' # NULL
             /\ \A f \in FrameFields : character'[f] = p.character[f]]_vars

\* C34 (amended): after a successful turn the character's id, name, theme,
\* maxHealth, backstory and companions equal their values at submission, the
\* characters the result introduces notwithstanding; a failed turn leaves the
\* live character as it is: id, name, theme and maxHealth equal their values
\* at submission, backstory and companions are those of the latest sheet edit.
C34_TurnFrame ==
    [][\A p \in pending \ pending' :
          p.kind \in {"turn", "fate"} =>
             /\ character' # NULL
             /\ Last(messages').speaker = "game" =>
                   \A f \in FrameFields : character'[f] = p.character[f]
             /\ Last(messages').speaker = "system" =>
                   /\ character' = character
                   /\ \A f \in FrameFields \ {"backstory", "companions"} :
                         character'[f] = p.character[f]
                   /\ \A f \in {"backstory", "companions"} :
                         character'[f] \in {p.character[f], "edited"}]_vars

\* a turn that introduced a named character succeeded and an undo snapshot
\* records the character before it
C34_Witness ==
    /\ pending = {} /\ gameState \in {GAMEPLAY, COMBAT}
    /\ Len(messages) > 0 /\ Last(messages).speaker = "game"
    /\ previousTurnState # NULL /\ character # NULL
    /\ character.health = 11 /\ previousTurnState.character.health # 11
    /\ character.companions = previousTurnState.character.companions
    /\ character.backstory = previousTurnState.character.backstory

(***************************************************************************)
(* C35 -- the theme of a character created under a continuation            *)
(***************************************************************************)
\* C35: a character that handleCharacterFinalize creates while a world
\* continuation is active (worldThemeForContinuation is set) has that world's
\* theme, whether it came from the detailed creator or from Quick Start.
C35_ContinuationTheme ==
    [][(now' # now /\ worldThemeForContinuation # "") =>
          /\ character' # NULL
          /\ character'.theme = worldThemeForContinuation]_vars

(***************************************************************************)
(* C36 -- what a slot restores is fixed at save time                       *)
(***************************************************************************)
\* C36: a completed turn, a sheet edit or an undo on a character that has a
\* slot changes neither the persisted collection nor the values of the known
\* collection, from which load restores; and no slot of the known collection
\* holds an inventory entry of quantity <= 0.
C36_SlotFixedAtSave ==
    /\ [][(/\ character # NULL /\ SaveIndex(savedGames, character.id) > 0
           /\ \/ \E p \in pending \ pending' : p.kind \in {"turn", "fate"}
              \/ \E field \in {"backstory", "companions"} : CharacterUpdate(field)
              \/ Undo) =>
             /\ localStorage' = localStorage
             /\ Stringify(savedGames') = Stringify(savedGames)]_vars
    /\ [](\A i \in 1..Len(savedGames) :
            \A j \in 1..Len(savedGames[i].character.inventory) :
               savedGames[i].character.inventory[j].quantity > 0)

(***************************************************************************)
(* C37 -- a sheet edit committed while a turn is in flight                 *)
(***************************************************************************)
\* C37: when a turn result is applied, the live character keeps the backstory
\* and companions it had just before (those of a sheet edit committed while
\* the turn was in flight included) and takes the health and inventory of the
\* turn.
C37_EditInFlightKept ==
    [][\A p \in pending \ pending' :
          (p.kind \in {"turn", "fate"} /\ Last(messages').speaker = "game") =>
             /\ character' # NULL
             /\ character'.backstory = character.backstory
             /\ character'.companions = character.companions
             /\ \E turnResult \in TurnResults :
                   /\ character'.health = turnResult.updatedHealth
                   /\ character'.inventory =
                         ApplyInventoryChange(p.character.inventory,
                                              turnResult.inventoryChange)]_vars

(***************************************************************************)
(* C38 -- a live character in the game phases                              *)
(***************************************************************************)
\* C38: in every state whose phase is GAMEPLAY, COMBAT or GAME_OVER the
\* character is not null; Start Anew, Continue as Another Hero and the modal's
\* Create New Character leave the character null.
C38_LiveCharacter ==
    /\ [](gameState \in {GAMEPLAY, COMBAT, GAME_OVER} => character # NULL)
    /\ [][(StartAnew \/ ContinueAsNewCharacter \/ ConfirmSwitchPerspectiveNew) =>
             character' = NULL]_vars

\* the modal's Create New Character has left the creation screen without a
\* character, the departing protagonist recorded as alive
C38_Witness ==
    /\ gameState = START /\ character = NULL
    /\ ~isSwitchingPerspective /\ messages = <<>>
    /\ previousProtagonist = [name |-> OldCharacter.name, status |-> "alive"]
    /\ worldThemeForContinuation = OldCharacter.theme

(***************************************************************************)
(* C39 -- whose snapshot the undo snapshot is                              *)
(***************************************************************************)
\* C39: whenever an undo snapshot exists there is a live character and the
\* snapshot's character has its id; an undo keeps the id of the character
\* being played.
C39_SnapshotOfLiveCharacter ==
    /\ [](previousTurnState # NULL =>
            /\ character # NULL
            /\ previousTurnState.character.id = character.id)
    /\ [][Undo => character # NULL /\ character'.id = character.id]_vars

\* a character created in this session took a turn while another
\* character's slot is known; the snapshot is its own
C39_Witness ==
    /\ pending = {} /\ previousTurnState # NULL /\ character # NULL
    /\ character.id # OldCharacter.id
    /\ OldCharacter.id \in ListedIds
    /\ previousTurnState.character.id = character.id
    /\ character.health # previousTurnState.character.health

(***************************************************************************)
(* C40 -- nothing to choose in GAME_OVER                                   *)
(***************************************************************************)
\* C40: in every state whose phase is GAME_OVER, choices and attackOptions
\* are both empty; this includes the GAME_OVER a failed Let Fate Decide sets.
C40_GameOverOffersNoChoice ==
    gameState = GAME_OVER => choices = <<>> /\ attackOptions = <<>>

\* the character died in a turn, Let Fate Decide was clicked and failed
C40_Witness ==
    /\ gameState = GAME_OVER /\ pending = {} /\ error = TurnError
    /\ character # NULL /\ character.health <= 0
    /\ Len(messages) >= 2
    /\ messages[Len(messages) - 1] = FateMessage
    /\ Last(messages) = Message("system", FateErrorText)
    /\ choices = <<>> /\ attackOptions = <<>>
====
